---- MODULE Spec2Model ----
(***************************************************************************)
(* A model of the PASTURE orchestration engine (src/pasture.py; the        *)
(* Pipeline class of src/pasture_core.py is line-for-line the same).       *)
(*                                                                         *)
(* Python values are modelled as follows.  A dict is a function whose      *)
(* domain is a set of strings; the empty dict is << >>.  A Python list is  *)
(* a sequence.  A plain string value of the run's input is the record      *)
(* [input |-> text], so that every value of a data map is a function and   *)
(* two of them can always be compared.  Wall-clock readings ("time",       *)
(* "total_time", "execution_time") are left out of the records.            *)
(***************************************************************************)
EXTENDS Integers, Sequences, FiniteSets, Bags, TLC

(***************************************************************************)
(* Bounds of the model.                                                    *)
(***************************************************************************)
MaxSteps == 3
MaxDeps == 2
MaxModelSteps == 2
MaxFallbacks == 2
MaxThreshold == 2
MaxPatchingAttempts == 2
MaxTtl == 2
MaxTime == 4
MaxOptions == 2

(***************************************************************************)
(* Names.  A pipeline of n steps declares the first n names of AllNames;   *)
(* UndefinedStep is a dependency name that no pipeline declares.           *)
(***************************************************************************)
AllNames == <<"s1", "s2", "s3", "s4", "s5", "s6">>
UndefinedStep == "undefined_step"
NONE == "none"
EmptyDict == << >>

VARIABLES
  steps,          \* Pipeline.steps: sequence of [name, deps, step]
  input_data,     \* the argument of Pipeline.run
  pc,             \* position of the caller: constructor, run loop, return
  cycle,          \* the cycle named by the constructor's ValueError
  results,        \* run: results
  data,           \* run: data
  execution_plan, \* run: execution_plan
  remaining_steps,\* run: remaining_steps when the planning loop ends
  plan_idx,       \* run: position of "for step_name in execution_plan"
  task,           \* the step task created by asyncio.create_task
  execute_data,   \* history: the data map each executed step was handed
  executed,       \* history: names of the steps whose execute was started
  ret,            \* the value returned by run
  config,         \* ModelManager.config
  model_lock,     \* ModelManager.model_lock: the caller that holds it, or NONE
  lock_waiters,   \* the callers suspended in model_lock.acquire(), oldest first
  active_model,   \* ModelManager.active_model
  loaded_models,  \* ModelManager.loaded_models
  model_statuses, \* ModelManager.model_statuses
  cache,          \* the entries of the FileCache, by key
  inflight,       \* bag of the HTTP requests sent and not yet answered
  running,        \* the task the event loop is executing, or NONE
  tpc,            \* per caller: position of its step task in ModelStep.execute
  tctx,           \* per caller: local variables of its step task
  timed_out_at,   \* history: where each timed-out step task was cancelled
  error_streak,   \* history: per model, the errors in a row and their effect
  file_cache,     \* a FileCache: its files, the clock, what get and set did last
  calls,          \* history: calls of functions without state, with what they returned
  http,           \* a call of ModelManager._request: its position, attempts, result
  retry_loop      \* a call of pasture_core's generate_with_model: its retry loop

pipeVars == <<steps, input_data, pc, cycle, results, data, execution_plan,
              remaining_steps, plan_idx, task, execute_data, executed, ret>>

mmVars == <<config, model_lock, lock_waiters, active_model, loaded_models,
            model_statuses, cache, inflight>>

taskVars == <<running, tpc, tctx>>

vars == <<pipeVars, mmVars, taskVars, timed_out_at, error_streak, file_cache, calls, http, retry_loop>>

(***************************************************************************)
(* Helpers on sequences and dicts.                                         *)
(***************************************************************************)
Range(s) == {s[i] : i \in 1..Len(s)}

InSeq(x, s) == \E i \in 1..Len(s) : s[i] = x

IndexOf(x, s) == CHOOSE i \in 1..Len(s) : s[i] = x /\ \A j \in 1..(i-1) : s[j] # x

\* d[k] = v on a dict: the key is added or its value replaced
DictSet(d, k, v) == [x \in DOMAIN d \cup {k} |-> IF x = k THEN v ELSE d[x]]

\* The names of AllNames and UndefinedStep that are in S, in that order
SetToSeq(S) ==
  LET all == Append(AllNames, UndefinedStep)
      F[i \in 0..Len(all)] ==
        IF i = 0 THEN << >>
        ELSE IF all[i] \in S THEN Append(F[i-1], all[i]) ELSE F[i-1]
  IN F[Len(all)]

StepNames(ss) == {ss[i].name : i \in 1..Len(ss)}

(***************************************************************************)
(* Pipeline._validate_steps: graph = {name: deps}; a depth-first search    *)
(* from each node with the list "path" of the nodes in progress and the    *)
(* set "visited".  A search state is [visited, path, raised, cycle].       *)
(***************************************************************************)
graph(ss) == [n \in StepNames(ss) |->
                 ss[CHOOSE i \in 1..Len(ss) :
                      ss[i].name = n /\ \A j \in (i+1)..Len(ss) : ss[j].name # n].deps]

RECURSIVE dfs(_, _, _)
RECURSIVE dfs_deps(_, _, _, _, _)

\* dfs with the two tests exchanged: "visited" is consulted before "path"
dfs_visited_first(g, node, st) ==
  IF st.raised THEN st
  ELSE IF node \in st.visited THEN st
  ELSE IF InSeq(node, st.path)
    THEN [st EXCEPT !.raised = TRUE,
                    !.cycle = Append(SubSeq(st.path, IndexOf(node, st.path), Len(st.path)), node)]
  ELSE LET entered == [st EXCEPT !.visited = @ \cup {node}, !.path = Append(@, node)]
           after == dfs_deps(g, node, g[node], 1, entered)
       IN IF after.raised THEN after
          ELSE [after EXCEPT !.path = SubSeq(@, 1, Len(@) - 1)]

dfs(g, node, st) ==
  IF st.raised THEN st
  ELSE IF InSeq(node, st.path)
    THEN [st EXCEPT !.raised = TRUE,
                    !.cycle = Append(SubSeq(st.path, IndexOf(node, st.path), Len(st.path)), node)]
  ELSE IF node \in st.visited THEN st
  ELSE LET entered == [st EXCEPT !.visited = @ \cup {node}, !.path = Append(@, node)]
           after == dfs_deps(g, node, g[node], 1, entered)
       IN IF after.raised THEN after
          ELSE [after EXCEPT !.path = SubSeq(@, 1, Len(@) - 1)]

\* "for dep in graph.get(node, [])": an undefined dep is only logged
dfs_deps(g, node, deps, i, st) ==
  IF st.raised \/ i > Len(deps) THEN st
  ELSE IF deps[i] \notin DOMAIN g
    THEN dfs_deps(g, node, deps, i + 1, st)
    ELSE dfs_deps(g, node, deps, i + 1, dfs(g, deps[i], st))

RECURSIVE dfs_all(_, _, _, _)
\* "for node in graph: dfs(node)", in the insertion order of the dict
dfs_all(g, order, i, st) ==
  IF st.raised \/ i > Len(order) THEN st
  ELSE dfs_all(g, order, i + 1, dfs(g, order[i], st))

_validate_steps(ss) ==
  dfs_all(graph(ss), [i \in 1..Len(ss) |-> ss[i].name], 1,
          [visited |-> {}, path |-> << >>, raised |-> FALSE, cycle |-> << >>])

(***************************************************************************)
(* Pipeline.run, the planning loop (lines 1771-1801).  "remaining" is the  *)
(* dict remaining_steps in insertion order; readiness is tested against    *)
(* the keys of the dict "results" of the run.                              *)
(***************************************************************************)
is_ready(s, res) == \A k \in 1..Len(s.deps) : s.deps[k] \in DOMAIN res

\* the planning loop that leaves the planned steps among the remaining ones
plan_loop_keeps_planned(remaining, plan, res) ==
  LET ready_steps == SelectSeq(remaining, LAMBDA s : is_ready(s, res))
  IN [plan |-> plan \o [i \in 1..Len(ready_steps) |-> ready_steps[i].name],
      remaining |-> remaining]

RECURSIVE plan_loop(_, _, _)
plan_loop(remaining, plan, res) ==
  IF remaining = << >> THEN [plan |-> plan, remaining |-> remaining]
  ELSE LET ready_steps == SelectSeq(remaining, LAMBDA s : is_ready(s, res))
       IN IF ready_steps = << >>
            THEN [plan |-> plan, remaining |-> remaining]
            ELSE plan_loop(SelectSeq(remaining, LAMBDA s : ~ is_ready(s, res)),
                           plan \o [i \in 1..Len(ready_steps) |-> ready_steps[i].name],
                           res)

(***************************************************************************)
(* Pipeline.run, helpers of the execution loop (lines 1803-1869).          *)
(***************************************************************************)
\* next((s for s in self.steps if s[0] == step_name), None)
step_info(ss, step_name) ==
  ss[CHOOSE i \in 1..Len(ss) :
       ss[i].name = step_name /\ \A j \in 1..(i-1) : ss[j].name # step_name]

\* getattr(step, "model_name", "unknown")
model_of(step) == IF "model_name" \in DOMAIN step THEN step.model_name ELSE "unknown"

\* [dep for dep in dependencies if dep not in results]
missing_deps(deps, res) == SelectSeq(deps, LAMBDA d : d \notin DOMAIN res)

\* prev_result.get("output", {}); every output of the model is a dict, so
\* the isinstance test of line 1834 passes it on unchanged
prev_output(prev_result) ==
  IF "output" \in DOMAIN prev_result THEN prev_result.output ELSE EmptyDict

\* robust_data where a key of the input keeps the input's value
robust_data_input_wins(inp, res) ==
  [k \in DOMAIN inp \cup DOMAIN res |->
     IF k \in DOMAIN inp THEN inp[k] ELSE prev_output(res[k])]

\* robust_data = input_data.copy(), then robust_data[prev_name] = prev_output
\* for every entry of results
robust_data(inp, res) ==
  [k \in DOMAIN inp \cup DOMAIN res |->
     IF k \in DOMAIN res THEN prev_output(res[k]) ELSE inp[k]]

missing_dependencies_result(step, missing) ==
  [output |-> [response |-> "Missing dependencies", missing |-> missing,
               error |-> "missing_dependencies"],
   status |-> "error", model |-> model_of(step)]

timeout_result(step) ==
  [output |-> [response |-> "Execution timed out after 300s", error |-> "timeout"],
   model |-> model_of(step), status |-> "error"]

execution_error_result(e) ==
  [output |-> [response |-> "Error: " \o e, error |-> "execution_error"],
   status |-> "error"]

step_failed_placeholder(name) ==
  [response |-> "Step " \o name \o " failed", error |-> "step_failed"]

\* result.get("status") == "success"
is_success(result) == "status" \in DOMAIN result /\ result.status = "success"

\* the dict "data" after lines 1854-1859
data_after(d, name, result) ==
  DictSet(d, name, IF is_success(result) THEN result.output
                   ELSE step_failed_placeholder(name))

\* a count that takes every entry of results for a success
success_count_counts_all(res) == Cardinality(DOMAIN res)

success_count(res) == Cardinality({k \in DOMAIN res : is_success(res[k])})

NoTask == [name |-> NONE]

(***************************************************************************)
(* The callers of the shared ModelManager.  "run" is the step task that    *)
(* Pipeline.run creates for the step it is executing; "other" is a step    *)
(* task that another coroutine (a second pipeline run, say) executes on    *)
(* the same ModelManager.  asyncio runs one task at a time: a task runs    *)
(* from one suspension point (an await that blocks) to the next, and       *)
(* "running" names it meanwhile.                                           *)
(***************************************************************************)
Callers == {"run", "other"}

Models == {"mA", "mB"}

\* the models of the steps that run alone on their ModelManager
AllModels == {"mA", "mB", "mC"}

Resumes(c, label) == running = NONE /\ tpc[c] = label

Runs(c, label) == running = c /\ tpc[c] = label

(***************************************************************************)
(* Config (lines 148-170): the fields the ModelManager reads.              *)
(***************************************************************************)
fallback_threshold == 2

Configs ==
  [simulation_mode : BOOLEAN, preload_models : BOOLEAN,
   fallback_threshold : {fallback_threshold}]

(***************************************************************************)
(* ModelStatus and the ModelManager's bookkeeping (lines 633-640,          *)
(* 723-743).  last_checked and last_used are wall-clock readings and left  *)
(* out.                                                                    *)
(***************************************************************************)
ModelStatus == [loaded |-> FALSE, healthy |-> TRUE, failure_count |-> 0]

\* model_statuses after _get_model_status(model_name)
_get_model_status(statuses, model_name) ==
  IF model_name \in DOMAIN statuses THEN statuses
  ELSE DictSet(statuses, model_name, ModelStatus)

\* a failure count that does not mark the model unhealthy
_increment_failure_count_never_marks(statuses, model_name, threshold) ==
  LET st == _get_model_status(statuses, model_name)
  IN [st EXCEPT ![model_name].failure_count = @ + 1]

\* model_statuses after _increment_failure_count(model_name)
_increment_failure_count(statuses, model_name, threshold) ==
  LET st == _get_model_status(statuses, model_name)
      count == st[model_name].failure_count + 1
  IN [st EXCEPT ![model_name].failure_count = count,
                ![model_name].healthy = IF count >= threshold THEN FALSE ELSE @]

\* model_statuses after check_model_health has its answer (lines 808-822)
health_checked(statuses, model_name, is_error, threshold) ==
  LET st == statuses
  IN IF is_error THEN _increment_failure_count(st, model_name, threshold)
     ELSE IF st[model_name].failure_count > 0
       THEN [st EXCEPT ![model_name].failure_count = 0, ![model_name].healthy = TRUE]
       ELSE st

\* _update_model_status(model_name, last_used=time.time()): the status of
\* the model exists from here on
used_now(statuses, model_name) == _get_model_status(statuses, model_name)

\* _update_model_status(model_name, loaded=...)
set_loaded(statuses, model_name, flag) ==
  [_get_model_status(statuses, model_name) EXCEPT ![model_name].loaded = flag]

(***************************************************************************)
(* History of the answers of the backend, per model: "streak" counts the   *)
(* errors in a row (errors of generation requests, failed preloads, failed *)
(* health probes) since the last answer without error; "tripped" holds     *)
(* from the error that makes the streak reach the threshold until a        *)
(* successful health probe.  A reply that is too short or has no response  *)
(* field is an answer of the backend that neither adds to the streak nor   *)
(* ends it.  "failures" counts the errors since the last successful        *)
(* generation or health probe (a successful preload does not end it), and  *)
(* "reached" holds from the error that makes it reach the threshold until  *)
(* a successful health probe.                                              *)
(***************************************************************************)
NoStreak == [streak |-> 0, tripped |-> FALSE, failures |-> 0, reached |-> FALSE]

after_error(h, m, threshold) ==
  [h EXCEPT ![m] = [streak |-> @.streak + 1,
                    tripped |-> @.tripped \/ @.streak + 1 >= threshold,
                    failures |-> @.failures + 1,
                    reached |-> @.reached \/ @.failures + 1 >= threshold]]

after_success(h, m) == [h EXCEPT ![m].streak = 0]

after_generation(h, m) == [h EXCEPT ![m].streak = 0, ![m].failures = 0]

after_healthy_probe(h, m) == [h EXCEPT ![m] = NoStreak]

(***************************************************************************)
(* HTTP requests (ModelManager._request, lines 684-721).  A request is in  *)
(* the bag "inflight" from the moment it is sent until its answer, or      *)
(* until the task awaiting it is cancelled.                                *)
(***************************************************************************)
Request(c, kind, model_name) ==
  [caller |-> c, kind |-> kind, model |-> model_name, endpoint |-> "/api/generate"]

send(fl, req) == fl (+) SetToBag({req})

answered(fl, req) == fl (-) SetToBag({req})

\* the requests left in flight when the task of caller c is cancelled and
\* its "async with session.post(...)" is left
cancel_requests_keeps(fl, c) == fl

cancel_requests(fl, c) ==
  LET mine == {r \in BagToSet(fl) : r.caller = c}
  IN [r \in BagToSet(fl) \ mine |-> fl[r]]

InFlight(c) == {r \in BagToSet(inflight) : r.caller = c}

\* what the backend may answer to a request, as _request returns it
ProbeAnswers == {"ok", "error"}

GenerateAnswers == {"ok", "error", "short", "no_response"}

\* the answer carries a "response" of min_response_length or more
replied(answer) == answer \notin {"error", "short", "no_response"}

(***************************************************************************)
(* asyncio.Lock as used by "async with self.model_lock" (lines 961, 1084). *)
(***************************************************************************)
\* the holder once caller c has acquired the lock
acquire_not_taken(c) == NONE

acquire(c) == c

\* the lock is taken at once when it is free and nobody waits for it
lock_is_free == model_lock = NONE /\ lock_waiters = << >>

\* the holder once caller c has left "async with self.model_lock"
release_keeps(holder, c) == holder

release(holder, c) == IF holder = c THEN NONE ELSE holder

without_waiter(waiters, c) == SelectSeq(waiters, LAMBDA w : w # c)

(***************************************************************************)
(* FileCache (lines 303-372).  A file of the cache directory is absent or  *)
(* has a text; the texts are classed by what json.load and CacheEntry make *)
(* of them: an entry as set wrote it, a text json.load rejects, JSON that  *)
(* is no object, and an object without the required field created_at.     *)
(* The clock counts whole ticks.  An Optional is << >> for None or <<v>>.  *)
(***************************************************************************)
CacheKeys == {"k1", "k2"}

CacheValues == {[response |-> "a"], [response |-> "b"]}

Ttls == {<< >>} \cup {<<t>> : t \in 0..MaxTtl}

\* a cache with every key hashed to the one file name
_hash_key_colliding(key) == "md5()"

\* _hash_key (lines 310-312): the md5 hex digest, written md5(key); the
\* digests of different keys are taken to differ
_hash_key(key) == "md5(" \o key \o ")"

FileNames == {_hash_key(k) : k \in CacheKeys}

Absent == [kind |-> "absent"]

\* json.dump(entry.model_dump(), f) (lines 355-366)
entry_file(value, created_at, expires_at) ==
  [kind |-> "entry", value |-> value, created_at |-> created_at, expires_at |-> expires_at]

MalformedFiles ==
  { [kind |-> "unparsable"], [kind |-> "not_object"],
    [kind |-> "missing_fields", value |-> [response |-> "a"]] }

NoGet == [key |-> NONE, outcome |-> NONE, value |-> EmptyDict]

NoSet == [key |-> NONE]

EmptyFileCache ==
  [files |-> [f \in FileNames |-> Absent], now |-> 0, got |-> NoGet, was_set |-> NoSet,
   last_set |-> [k \in CacheKeys |-> << >>]]

\* an entry that outlives the deadline by a tick
is_expired_after_deadline(expires_at, now) ==
  expires_at # << >> /\ expires_at[1] + 1 < now

\* "entry.expires_at is not None and entry.expires_at < time.time()"
\* (line 331)
is_expired(expires_at, now) ==
  expires_at # << >> /\ expires_at[1] < now

\* FileCache.get (lines 320-342) on the file of the key when the file can be
\* read: the value, None, or an exception that no handler of get catches
\* (TypeError from CacheEntry(**data) when data is no dict, ValidationError
\* when a field is missing); with the retry decorator around get the caller
\* sees that exception or a RetryError
get_result(key, file, now) ==
  CASE file.kind = "absent" -> [key |-> key, outcome |-> "miss", value |-> EmptyDict]
    [] file.kind = "unparsable" -> [key |-> key, outcome |-> "miss", value |-> EmptyDict]
    [] file.kind = "entry" ->
         IF is_expired(file.expires_at, now)
           THEN [key |-> key, outcome |-> "miss", value |-> EmptyDict]
           ELSE [key |-> key, outcome |-> "value", value |-> file.value]
    [] OTHER -> [key |-> key, outcome |-> "raised", value |-> EmptyDict]

\* "except (json.JSONDecodeError, IOError)" when open or read fails
read_failed(key) == [key |-> key, outcome |-> "miss", value |-> EmptyDict]

(***************************************************************************)
(* The cache as generate_with_model uses it (lines 909-913, 1046).         *)
(***************************************************************************)
\* f"{model_name}:{prompt}:{json.dumps(options or {})}"
_create_cache_key(model_name, prompt, options) ==
  model_name \o ":" \o prompt \o ":" \o options

\* a cache that answers a hit with something else than the entry
cache_get_other(entries, key) ==
  IF key \in DOMAIN entries THEN [response |-> "not the entry"] ELSE EmptyDict

\* cache.get(key) when the entry, if there is one, has not expired
cache_get(entries, key) == IF key \in DOMAIN entries THEN entries[key] ELSE EmptyDict

\* "if cached_result:" -- an empty dict is not a hit
is_hit(cached_result) == cached_result # EmptyDict

(***************************************************************************)
(* Reply texts and JSONProcessor (lines 415-614).  A text is a string; the *)
(* functions on texts are tabulated over the texts a backend sends here:   *)
(* a sentence, a JSON object with the field of the schema, one with a      *)
(* field more, one without the field, an object whose "response" holds the *)
(* text of such an object, an object that json.loads and repair_json both  *)
(* reject, and a sentence with a JSON object in it.  The schema of a step *)
(* is a pydantic model with the one required field "title"; model_dump     *)
(* leaves out fields the model does not declare.  No text has leading or   *)
(* trailing white space, so strip() changes none.                          *)
(***************************************************************************)
ValidJson == "{\"title\": \"t\"}"

ExtraJson == "{\"title\": \"t\", \"note\": \"n\"}"

InvalidJson == "{\"note\": \"n\"}"

WrappedValid == "{\"response\": \"{\\\"title\\\": \\\"t\\\"}\"}"

WrappedInvalid == "{\"response\": \"{\\\"note\\\": \\\"n\\\"}\"}"

BrokenJson == "{\"title\": }"

ProseValid == "Here it is: {\"title\": \"t\"} as asked"

JsonAnswers == {"valid", "extra", "invalid", "wrapped_valid", "wrapped_invalid",
                "broken", "prose"}

\* what the backend may answer to the generation request of a step: a
\* model is asked for JSON by the steps that declare an output_schema
AnswersFor(step) ==
  IF step.kind = "ModelStep" /\ step.output_schema # NONE
    THEN GenerateAnswers \cup JsonAnswers ELSE GenerateAnswers

\* result["response"] of the backend, by the kind of its answer
reply_text(model_name, answer) ==
  CASE answer = "valid" -> ValidJson
    [] answer = "extra" -> ExtraJson
    [] answer = "invalid" -> InvalidJson
    [] answer = "wrapped_valid" -> WrappedValid
    [] answer = "wrapped_invalid" -> WrappedInvalid
    [] answer = "broken" -> BrokenJson
    [] answer = "prose" -> ProseValid
    [] OTHER -> "text from " \o model_name

\* text.strip().startswith("{") and text.strip().endswith("}")
\* (lines 1024, 1345)
looks_like_json(text) ==
  text \in {ValidJson, ExtraJson, InvalidJson, WrappedValid, WrappedInvalid, BrokenJson}

\* json.loads: the object, or JSONDecodeError
json_loads(text) ==
  CASE text = ValidJson -> [ok |-> TRUE, value |-> [title |-> "t"]]
    [] text = ExtraJson -> [ok |-> TRUE, value |-> [title |-> "t", note |-> "n"]]
    [] text = InvalidJson -> [ok |-> TRUE, value |-> [note |-> "n"]]
    [] text = WrappedValid -> [ok |-> TRUE, value |-> [response |-> ValidJson]]
    [] text = WrappedInvalid -> [ok |-> TRUE, value |-> [response |-> InvalidJson]]
    [] OTHER -> [ok |-> FALSE, value |-> EmptyDict]

\* JSONProcessor.extract_json (lines 428-449): the first fenced or naked
\* "{...}" up to the first "}" that json.loads accepts, or None.  In the
\* wrapping objects the first "}" closes the inner object, so the match is
\* no JSON.
extract_json(text) ==
  CASE text = ProseValid -> ValidJson
    [] text \in {ValidJson, ExtraJson, InvalidJson} -> text
    [] OTHER -> NONE

\* JSONProcessor.parse (lines 487-505); repair_json mends none of the
\* texts json.loads rejects here
JSONProcessor_parse(input_str) ==
  IF input_str = "" THEN [response |-> "", error |-> "empty_response"]
  ELSE IF json_loads(input_str).ok THEN json_loads(input_str).value
  ELSE [response |-> input_str, error |-> "json_parsing_failed"]

\* JSONProcessor.validate_with_schema (lines 523-536), after its await
validate_with_schema(d) ==
  IF "title" \in DOMAIN d
    THEN [is_valid |-> TRUE, data |-> [title |-> d.title]]
    ELSE [is_valid |-> FALSE, data |-> [error |-> "schema_validation_failed"]]

\* JSONProcessor.wrap_text_as_json (lines 538-544)
wrap_text_as_json(text) ==
  IF text = "" THEN [response |-> "", error |-> "empty_response"]
  ELSE [response |-> text]

\* result.get("response", "") (lines 1342, 1587)
get_response(result) == IF "response" \in DOMAIN result THEN result.response ELSE ""

(***************************************************************************)
(* The dicts generate_with_model returns (lines 915-1054).                 *)
(***************************************************************************)
simulated_response_unexpected(model_name) ==
  [error |-> "unexpected_format", response |-> "Simulated response from " \o model_name]

simulated_response(model_name) ==
  [response |-> "Simulated response from " \o model_name]

model_load_failed(model_name) ==
  [error |-> "model_load_failed", response |-> "Failed to load model " \o model_name]

validation_error == [error |-> "validation_error", response |-> "Invalid request options"]

\* lines 1001-1054, by the answer of the backend
generate_result(model_name, answer) ==
  CASE answer = "error" -> [error |-> "HTTP 500", response |-> "Error: details"]
    [] answer = "short" -> [error |-> "response_too_short", response |-> "short"]
    [] answer = "no_response" ->
         [error |-> "unexpected_format",
          response |-> "Received unexpected response format from model"]
    [] answer \in JsonAnswers /\ looks_like_json(reply_text(model_name, answer)) ->
         JSONProcessor_parse(reply_text(model_name, answer))
    [] OTHER -> [response |-> reply_text(model_name, answer)]

\* a caller that takes every result for a good one
has_error_never(result) == FALSE

\* "error" in result (lines 1383, 1476)
has_error(result) == "error" \in DOMAIN result

(***************************************************************************)
(* The results ModelStep.execute and ModelStep.get_fallback return         *)
(* (lines 1383-1391, 1479-1496).                                           *)
(***************************************************************************)
\* an execute that reports success whatever the result holds
execute_result_always_success(step, prompt, result) ==
  [output |-> result, model |-> step.model_name, status |-> "success", prompt |-> prompt]

execute_result(step, prompt, result) ==
  [output |-> result, model |-> step.model_name,
   status |-> IF has_error(result) THEN "error" ELSE "success", prompt |-> prompt]

fallback_result(fallback_model, prompt, result) ==
  [output |-> result, model |-> fallback_model, status |-> "success",
   prompt |-> prompt, fallback |-> TRUE]

all_models_failed(step) ==
  [output |-> [response |-> "All models failed to generate a response",
               error |-> "all_models_failed"],
   model |-> step.model_name, status |-> "error", fallback |-> TRUE]

(***************************************************************************)
(* The steps of a pipeline.  AnalysisStep.execute is abstract: a step of   *)
(* that class returns a result with status success or error, raises, or    *)
(* is still suspended when the step timeout expires.  A ModelStep runs     *)
(* ModelStep.execute against the ModelManager; it has no output_schema     *)
(* here, so lines 1340-1381 are skipped.                                   *)
(***************************************************************************)
AnalysisStep == [kind |-> "AnalysisStep"]

AbstractResults(name) ==
  { [output |-> [response |-> "output of " \o name], status |-> "success"],
    [output |-> [response |-> "bad output of " \o name, error |-> "some_error"],
     status |-> "error"] }

Exceptions == {"boom"}

\* JSONPatchingConfig() (lines 133-141)
JSONPatchingConfig == [enabled |-> TRUE, max_attempts |-> 3, fallback_to_text |-> TRUE]

\* ModelStep.__init__ (lines 1265-1286) under the json_patching settings of
\* the manager's config; an optional argument is << >> for None or <<v>>
ModelStepWith(json_patching, model_name, fallback_models, template, output_schema, use_patching, max_patching_attempts) ==
  [kind |-> "ModelStep", model_name |-> model_name, fallback_models |-> fallback_models,
   prompt_template |-> template, options |-> "{temperature: 0.7}", options_valid |-> TRUE,
   output_schema |-> output_schema,
   use_patching |-> IF use_patching # << >> THEN use_patching[1]
                    ELSE json_patching.enabled,
   max_patching_attempts |->
     IF max_patching_attempts # << >> /\ max_patching_attempts[1] # 0
       THEN max_patching_attempts[1] ELSE json_patching.max_attempts,
   fallback_to_text |-> json_patching.fallback_to_text,
   \* history: the max_patching_attempts argument and the configured default
   args |-> [max_patching_attempts |-> max_patching_attempts,
             max_attempts |-> json_patching.max_attempts]]

\* a ModelStep without output_schema under the default settings
ModelStep(model_name, fallback_models, template) ==
  ModelStepWith(JSONPatchingConfig, model_name, fallback_models, template, NONE,
                << >>, << >>)

\* ModelStep._format_prompt (lines 1288-1311); the substituted values are
\* not modelled, the prompt stands for the template filled with the data
_format_prompt(step, d) == "prompt from " \o step.prompt_template

NoStep == [kind |-> NONE]

\* the locals of a step task; "result" is what the generate_with_model call
\* in progress returned, "step_result" the result of execute while
\* _patch_json_output runs, "replies" the texts the backend sent the task
NoCtx ==
  [step |-> NoStep, prompt |-> "", mode |-> NONE, model |-> NONE, fb_idx |-> 0,
   healthy |-> TRUE, result |-> EmptyDict, ret |-> EmptyDict, trace |-> << >>,
   step_result |-> EmptyDict, response_obj |-> "", output_text |-> "", attempt |-> 0,
   replies |-> << >>]

\* history kept with the locals of a step task: what its calls into the
\* ModelManager did, in order
health_event(model_name, probed, ok) ==
  [op |-> "health", model |-> model_name, probed |-> probed, ok |-> ok]

generate_event(model_name, how, result) ==
  [op |-> "generate", model |-> model_name, how |-> how, error |-> "error" \in DOMAIN result]

\* the local variables of a step task when step.execute(d) is entered
TaskCtx(step, d) ==
  IF step.kind = "ModelStep"
    THEN [NoCtx EXCEPT !.step = step, !.prompt = _format_prompt(step, d),
                       !.mode = "primary", !.model = step.model_name]
    ELSE [NoCtx EXCEPT !.step = step]

DepSets(n) ==
  {D \in SUBSET ({AllNames[i] : i \in 1..n} \cup {UndefinedStep}) : Cardinality(D) <= MaxDeps}

\* the pipeline of n steps whose i-th step has the dependencies ds[i]
PipelineOf(n, ds) ==
  [i \in 1..n |-> [name |-> AllNames[i], deps |-> SetToSeq(ds[i]), step |-> AnalysisStep]]

\* The input of the run: the usual key "query" and a key that is also the
\* name of the first step (the other step names are not keys of the input)
Inputs ==
  { [k \in {"query", AllNames[1]} |-> [input |-> "value of " \o k]] }

(***************************************************************************)
(* ModelManager._request under its retry decorator (lines 678-721).        *)
(***************************************************************************)
MaxRequests == 2

\* the endpoints of the backend and the method each is called with
Requests == {<<"tags", "GET">>, <<"generate", "POST">>, <<"chat", "POST">>}

\* what one attempt meets at the transport: the status of the reply (and
\* whether its body parses), or the exception aiohttp raises
Transports == {"200", "200_malformed", "404", "500", "ClientError", "TimeoutError", "RuntimeError"}

returned(value) == [kind |-> "returned", value |-> value, exc |-> NONE]

raised(exc) == [kind |-> "raised", value |-> EmptyDict, exc |-> exc]

NoOutcome == [kind |-> NONE, value |-> EmptyDict, exc |-> NONE]

NoRequest ==
  [pc |-> "idle", endpoint |-> NONE, method |-> NONE, attempt_number |-> 0, sent |-> 0,
   outcome |-> NoOutcome, result |-> NoOutcome, log |-> << >>]

\* the body of _request (lines 694-721): every exception is caught and
\* turned into an error object
_request_body(transport) ==
  CASE transport = "200" -> returned([response |-> "text"])
    [] transport \in {"404", "500"} ->
         returned([error |-> "HTTP " \o transport, details |-> "body"])
    [] transport = "TimeoutError" ->
         returned([error |-> "timeout", details |-> "Request timed out"])
    [] transport = "ClientError" ->
         returned([error |-> "connection_error", details |-> "ClientError"])
    [] OTHER -> returned([error |-> "request_failed", details |-> transport])

\* line 681: retry=retry_if_exception_type((ClientError, TimeoutError))
retry_if_exception_type(outcome) ==
  outcome.kind = "raised" /\ outcome.exc \in {"ClientError", "TimeoutError"}

\* line 680: two waits of one second, then the exponential wait between 2
\* and 10 seconds
wait_chain(attempt_number) ==
  IF attempt_number <= 2 THEN 1
  ELSE IF 2 ^ (attempt_number - 1) > 10 THEN 10 ELSE 2 ^ (attempt_number - 1)

\* lines 679-680: the decorator is given stop_after_attempt(3) and the
\* wait chain by position, so the wait chain is what decides to stop
stop(attempt_number) == wait_chain(attempt_number) # 0

(***************************************************************************)
(* generate_with_model of pasture_core.py with its retry loop (lines       *)
(* 639-772).                                                               *)
(***************************************************************************)
MaxRetries == 2

\* Config.max_retries is an int without a lower bound (pasture_core.py,
\* line 75)
RetryValues == -1..MaxRetries

\* the None a coroutine returns when it runs off its end
PyNone == [py_none |-> TRUE]

NoRetry ==
  [pc |-> "idle", model |-> NONE, max_retries |-> 0, retry_count |-> 0, sent |-> 0,
   answers |-> << >>, result |-> << >>]

\* the state before Pipeline.run, and a ModelManager as __init__ leaves it
\* (lines 644-658)
InitManager ==
  /\ pc = "new"
  /\ cycle = << >>
  /\ results = EmptyDict
  /\ data = EmptyDict
  /\ execution_plan = << >>
  /\ remaining_steps = << >>
  /\ plan_idx = 0
  /\ task = NoTask
  /\ execute_data = EmptyDict
  /\ executed = << >>
  /\ ret = EmptyDict
  /\ model_lock = NONE
  /\ lock_waiters = << >>
  /\ active_model = NONE
  /\ loaded_models = {}
  /\ model_statuses = EmptyDict
  /\ cache = EmptyDict
  /\ inflight = EmptyBag
  /\ running = NONE
  /\ timed_out_at = EmptyDict
  /\ error_streak = [m \in AllModels |-> NoStreak]
  /\ calls = << >>
  /\ http = NoRequest
  /\ retry_loop = NoRetry

\* the same with a cache directory that is empty
InitRun ==
  /\ InitManager
  /\ file_cache = EmptyFileCache

\* a pipeline of abstract steps; nobody else uses the ModelManager
Init ==
  /\ \E n \in 1..MaxSteps : \E ds \in [1..n -> DepSets(n)] : steps = PipelineOf(n, ds)
  /\ input_data \in Inputs
  /\ config = [simulation_mode |-> FALSE, preload_models |-> TRUE,
               fallback_threshold |-> fallback_threshold]
  /\ tpc = [c \in Callers |-> "idle"]
  /\ tctx = [c \in Callers |-> NoCtx]
  /\ InitRun

(***************************************************************************)
(* Pipeline.__init__ (lines 1716-1728): _validate_steps raises ValueError  *)
(* out of the constructor, or the pipeline exists.                         *)
(***************************************************************************)
Construct ==
  /\ pc = "new"
  /\ running = NONE
  /\ LET v == _validate_steps(steps)
     IN /\ pc' = IF v.raised THEN "raised" ELSE "constructed"
        /\ cycle' = v.cycle
  /\ UNCHANGED <<steps, input_data, results, data, execution_plan, remaining_steps,
                 plan_idx, task, execute_data, executed, ret>>
  /\ UNCHANGED <<mmVars, taskVars, timed_out_at, error_streak, file_cache, calls, http, retry_loop>>

(***************************************************************************)
(* Pipeline.run up to the execution loop (lines 1766-1801).                *)
(***************************************************************************)
RunStart ==
  /\ pc = "constructed"
  /\ running = NONE
  /\ LET res0 == EmptyDict
         p == plan_loop(steps, << >>, res0)
     IN /\ results' = res0
        /\ data' = input_data
        /\ execution_plan' = p.plan
        /\ remaining_steps' = [i \in 1..Len(p.remaining) |-> p.remaining[i].name]
  /\ plan_idx' = 1
  /\ pc' = "loop"
  /\ UNCHANGED <<steps, input_data, cycle, task, execute_data, executed, ret>>
  /\ UNCHANGED <<mmVars, taskVars, timed_out_at, error_streak, file_cache, calls, http, retry_loop>>

(***************************************************************************)
(* One iteration of "for step_name in execution_plan" up to the await of   *)
(* line 1842: the step is skipped with a missing_dependencies result, or   *)
(* its task is created with robust_data.                                   *)
(***************************************************************************)
StepBegin ==
  /\ pc = "loop"
  /\ running = NONE
  /\ plan_idx <= Len(execution_plan)
  /\ LET info == step_info(steps, execution_plan[plan_idx])
         missing == missing_deps(info.deps, results)
         d == robust_data(input_data, results)
     IN IF missing # << >>
          THEN /\ results' = DictSet(results, info.name,
                                     missing_dependencies_result(info.step, missing))
               /\ plan_idx' = plan_idx + 1
               /\ UNCHANGED <<pc, task, execute_data, executed, tpc, tctx>>
          ELSE /\ task' = [name |-> info.name]
               /\ execute_data' = DictSet(execute_data, info.name, d)
               /\ executed' = Append(executed, info.name)
               /\ pc' = "awaiting"
               /\ tpc' = [tpc EXCEPT !["run"] =
                            IF info.step.kind = "ModelStep" THEN "start" ELSE "abstract"]
               /\ tctx' = [tctx EXCEPT !["run"] = TaskCtx(info.step, d)]
               /\ UNCHANGED <<results, plan_idx>>
  /\ UNCHANGED <<steps, input_data, cycle, data, execution_plan, remaining_steps, ret>>
  /\ UNCHANGED <<mmVars, running, timed_out_at, error_streak, file_cache, calls, http, retry_loop>>

\* lines 1852-1861: the result is recorded and "data" updated; the step
\* task is over
Record(result) ==
  /\ results' = DictSet(results, task.name, result)
  /\ data' = data_after(data, task.name, result)
  /\ plan_idx' = plan_idx + 1
  /\ task' = NoTask
  /\ pc' = "loop"
  /\ tpc' = [tpc EXCEPT !["run"] = "idle"]
  /\ tctx' = [tctx EXCEPT !["run"] = NoCtx]
  /\ UNCHANGED <<steps, input_data, cycle, execution_plan, remaining_steps,
                 execute_data, executed, ret, running>>

\* the task of an abstract step returns a result in time
StepReturn ==
  /\ pc = "awaiting"
  /\ Resumes("run", "abstract")
  /\ \E result \in AbstractResults(task.name) : Record(result)
  /\ UNCHANGED <<mmVars, timed_out_at, error_streak, file_cache, calls, http, retry_loop>>

\* step.execute raises: "except Exception" of lines 1862-1869
StepRaise ==
  /\ pc = "awaiting"
  /\ Resumes("run", "abstract")
  /\ \E e \in Exceptions :
       results' = DictSet(results, task.name, execution_error_result(e))
  /\ plan_idx' = plan_idx + 1
  /\ task' = NoTask
  /\ pc' = "loop"
  /\ tpc' = [tpc EXCEPT !["run"] = "idle"]
  /\ tctx' = [tctx EXCEPT !["run"] = NoCtx]
  /\ UNCHANGED <<steps, input_data, cycle, data, execution_plan, remaining_steps,
                 execute_data, executed, ret, running>>
  /\ UNCHANGED <<mmVars, timed_out_at, error_streak, file_cache, calls, http, retry_loop>>

\* ModelStep.execute has returned: wait_for hands its result to run
ModelStepReturn ==
  /\ pc = "awaiting"
  /\ Resumes("run", "done")
  /\ Record(tctx["run"].ret)
  /\ UNCHANGED <<mmVars, timed_out_at, error_streak, file_cache, calls, http, retry_loop>>

\* The awaits at which the 300 s of wait_for can run out: a backend request,
\* the model lock, the executor that validates against a schema, or
\* whatever an abstract step awaits
Cancellable == {"abstract", "health_req", "wait_lock", "unload_req", "preload_req",
                "generate_req", "validate", "patch_validate"}

(***************************************************************************)
(* asyncio.wait_for times out (lines 1842-1850): the step task is          *)
(* cancelled and wait_for returns once the cancellation is through.        *)
(* CancelledError is no Exception, so no handler of the step catches it:   *)
(* it leaves the pending request and "async with self.model_lock", or the  *)
(* queue of the lock.                                                      *)
(***************************************************************************)
StepTimeout ==
  /\ pc = "awaiting"
  /\ running = NONE
  /\ tpc["run"] \in Cancellable
  /\ inflight' = cancel_requests(inflight, "run")
  /\ model_lock' = release(model_lock, "run")
  /\ lock_waiters' = without_waiter(lock_waiters, "run")
  /\ timed_out_at' = DictSet(timed_out_at, task.name,
                             [at |-> tpc["run"], held_lock |-> model_lock = "run"])
  /\ Record(timeout_result(step_info(steps, task.name).step))
  /\ UNCHANGED <<config, active_model, loaded_models, model_statuses, cache, error_streak,
                 file_cache, calls, http, retry_loop>>

(***************************************************************************)
(* Pipeline.run after the loop (lines 1871-1884).                          *)
(***************************************************************************)
Finish ==
  /\ pc = "loop"
  /\ running = NONE
  /\ plan_idx > Len(execution_plan)
  /\ ret' = [results |-> results,
             success_count |-> success_count(results),
             total_count |-> Cardinality(DOMAIN results),
             success_rate |-> <<success_count(results), Cardinality(DOMAIN results)>>]
  /\ pc' = "done"
  /\ UNCHANGED <<steps, input_data, cycle, results, data, execution_plan,
                 remaining_steps, plan_idx, task, execute_data, executed>>
  /\ UNCHANGED <<mmVars, taskVars, timed_out_at, error_streak, file_cache, calls, http, retry_loop>>

Next ==
  \/ Construct
  \/ RunStart
  \/ StepBegin
  \/ StepReturn
  \/ StepRaise
  \/ StepTimeout
  \/ Finish

Spec == Init /\ [][Next]_vars

(***************************************************************************)
(* ModelStep.execute and ModelStep.get_fallback against the ModelManager,  *)
(* one action per stretch of code between two suspension points.  c is the *)
(* caller whose step task takes the step; tctx[c] holds its locals.        *)
(***************************************************************************)
pipeUnchanged ==
  UNCHANGED <<pipeVars, timed_out_at, file_cache, calls, http, retry_loop>>

\* the locals of a step task that has returned: wait_for reads the result
\* of the task of "run"; the result of "other" goes to its own awaiter
Returned(c, result) ==
  IF c = "run"
    THEN [NoCtx EXCEPT !.ret = result, !.trace = tctx[c].trace, !.replies = tctx[c].replies]
    ELSE NoCtx

\* check_model_health up to its request (lines 786-806), entered from
\* execute (line 1317) or from the loop of get_fallback (line 1461)
CheckModelHealth(c) ==
  /\ Resumes(c, "start") \/ Runs(c, "check_health")
  /\ LET m == tctx[c].model
         st == IF config.simulation_mode THEN model_statuses
               ELSE _get_model_status(model_statuses, m)
         probe == ~config.simulation_mode /\ st[m].healthy
     IN /\ model_statuses' = st
        /\ inflight' = IF probe THEN send(inflight, Request(c, "health", m)) ELSE inflight
        /\ tpc' = [tpc EXCEPT ![c] = IF probe THEN "health_req" ELSE "health_done"]
        /\ running' = IF probe THEN NONE ELSE c
        /\ tctx' = IF probe THEN tctx
                   ELSE [tctx EXCEPT ![c].healthy = config.simulation_mode,
                                     ![c].trace = Append(@, health_event(m, FALSE,
                                                           config.simulation_mode))]
  /\ UNCHANGED <<config, model_lock, lock_waiters, active_model, loaded_models, cache>>
  /\ pipeUnchanged
  /\ UNCHANGED error_streak

\* the probe is answered (lines 808-822)
HealthResponse(c) ==
  /\ Resumes(c, "health_req")
  /\ \E answer \in ProbeAnswers :
       LET m == tctx[c].model
       IN /\ inflight' = answered(inflight, Request(c, "health", m))
          /\ model_statuses' = health_checked(model_statuses, m, answer = "error",
                                              config.fallback_threshold)
          /\ tctx' = [tctx EXCEPT ![c].healthy = (answer = "ok"),
                                   ![c].trace = Append(@, health_event(m, TRUE, answer = "ok"))]
          /\ error_streak' = IF answer = "ok" THEN after_healthy_probe(error_streak, m)
                              ELSE after_error(error_streak, m, config.fallback_threshold)
  /\ tpc' = [tpc EXCEPT ![c] = "health_done"]
  /\ running' = c
  /\ UNCHANGED <<config, model_lock, lock_waiters, active_model, loaded_models, cache>>
  /\ pipeUnchanged

\* an execute that goes on with its primary model whatever its health
delegates_never(is_healthy, fallback_models) == FALSE

\* "if not is_healthy and self.fallback_models" (line 1318)
delegates_to_fallback(is_healthy, fallback_models) ==
  ~ is_healthy /\ fallback_models # << >>

\* what execute (lines 1318-1320) and get_fallback (lines 1462-1464) do
\* with is_healthy; a local that is not read again goes back to its
\* initial value
AfterHealth(c) ==
  /\ Runs(c, "health_done")
  /\ LET x == tctx[c]
         fallbacks == x.step.fallback_models
     IN IF x.mode = "primary"
          THEN IF delegates_to_fallback(x.healthy, fallbacks)
                 THEN /\ tctx' = [tctx EXCEPT ![c].mode = "fallback", ![c].fb_idx = 1,
                                                ![c].healthy = TRUE]
                      /\ tpc' = [tpc EXCEPT ![c] = "fb_loop"]
                 ELSE /\ tpc' = [tpc EXCEPT ![c] = "gen_call"]
                      /\ UNCHANGED tctx
          ELSE IF ~x.healthy
                 THEN /\ tctx' = [tctx EXCEPT ![c].fb_idx = @ + 1, ![c].healthy = TRUE]
                      /\ tpc' = [tpc EXCEPT ![c] = "fb_loop"]
                 ELSE /\ tpc' = [tpc EXCEPT ![c] = "gen_call"]
                      /\ UNCHANGED tctx
  /\ UNCHANGED <<mmVars, running>>
  /\ pipeUnchanged
  /\ UNCHANGED error_streak

\* "for fallback_model in fallback_candidates" (lines 1454-1461) and the
\* return after the loop (lines 1488-1496)
FallbackLoop(c) ==
  /\ Runs(c, "fb_loop")
  /\ LET x == tctx[c]
         fallbacks == x.step.fallback_models
     IN IF x.fb_idx > Len(fallbacks)
          THEN /\ tctx' = [tctx EXCEPT ![c] = Returned(c, all_models_failed(x.step))]
               /\ tpc' = [tpc EXCEPT ![c] = "done"]
               /\ running' = NONE
          ELSE /\ tctx' = [tctx EXCEPT ![c].model = fallbacks[x.fb_idx]]
               /\ tpc' = [tpc EXCEPT ![c] = "check_health"]
               /\ UNCHANGED running
  /\ UNCHANGED mmVars
  /\ pipeUnchanged
  /\ UNCHANGED error_streak

\* _patch_json_output's options (lines 1415-1417): half the temperature,
\* 0.3 at most
patching_options(options) ==
  IF options = "{temperature: 0.7}" THEN "{temperature: 0.3}" ELSE options

\* fix_prompt of patch_json_with_model (line 571)
fix_prompt(input_text) ==
  "patching prompt with schema\n\nPrevious output:\n" \o input_text

\* the prompt and the options of the generate_with_model call of a task:
\* those of the step, or those of patch_json_with_model (lines 573-577)
call_prompt(x) == IF x.mode = "patch" THEN fix_prompt(x.output_text) ELSE x.prompt

call_options(x) == IF x.mode = "patch" THEN patching_options(x.step.options)
                   ELSE x.step.options

\* generate_with_model up to its first suspension (lines 906-961).  The
\* entry of the key may have outlived its ttl by now: then cache.get finds
\* nothing and the entry counts for nothing from here on.
GenerateCall(c) ==
  /\ Runs(c, "gen_call")
  /\ \E expired \in BOOLEAN :
       LET x == tctx[c]
           cache_key == _create_cache_key(x.model, call_prompt(x), call_options(x))
           live == IF expired /\ cache_key \in DOMAIN cache
                     THEN [k \in DOMAIN cache \ {cache_key} |-> cache[k]]
                     ELSE cache
           cached_result == cache_get(live, cache_key)
       IN /\ expired => cache_key \in DOMAIN cache
          /\ cache' = live
          /\ IF is_hit(cached_result)
               THEN /\ tctx' = [tctx EXCEPT ![c].result = cached_result,
                                             ![c].trace = Append(@, generate_event(x.model,
                                                            "cache", cached_result))]
                    /\ tpc' = [tpc EXCEPT ![c] = "gen_ret"]
                    /\ UNCHANGED <<model_lock, lock_waiters, running>>
               ELSE IF config.simulation_mode
                 THEN /\ tpc' = [tpc EXCEPT ![c] = "sim_sleep"]
                      /\ running' = NONE
                      /\ UNCHANGED <<model_lock, lock_waiters, tctx>>
                 ELSE IF lock_is_free
                   THEN /\ model_lock' = acquire(c)
                        /\ tpc' = [tpc EXCEPT ![c] = "locked"]
                        /\ UNCHANGED <<lock_waiters, running, tctx>>
                   ELSE /\ lock_waiters' = Append(lock_waiters, c)
                        /\ tpc' = [tpc EXCEPT ![c] = "wait_lock"]
                        /\ running' = NONE
                        /\ UNCHANGED <<model_lock, tctx>>
  /\ UNCHANGED <<config, active_model, loaded_models, model_statuses, inflight>>
  /\ pipeUnchanged
  /\ UNCHANGED error_streak

\* simulation mode after asyncio.sleep(0.5) (lines 917-958)
SimSleepDone(c) ==
  /\ Resumes(c, "sim_sleep")
  /\ LET x == tctx[c]
         cache_key == _create_cache_key(x.model, call_prompt(x), call_options(x))
         response == simulated_response(x.model)
     IN /\ cache' = DictSet(cache, cache_key, response)
        /\ tctx' = [tctx EXCEPT ![c].result = response,
                                 ![c].trace = Append(@, generate_event(x.model, "simulated",
                                                                       response))]
  /\ tpc' = [tpc EXCEPT ![c] = "gen_ret"]
  /\ running' = c
  /\ UNCHANGED <<config, model_lock, lock_waiters, active_model, loaded_models,
                 model_statuses, inflight>>
  /\ pipeUnchanged
  /\ UNCHANGED error_streak

\* the lock is released and c is the first of its queue
LockGranted(c) ==
  /\ Resumes(c, "wait_lock")
  /\ model_lock = NONE
  /\ Head(lock_waiters) = c
  /\ model_lock' = acquire(c)
  /\ lock_waiters' = Tail(lock_waiters)
  /\ tpc' = [tpc EXCEPT ![c] = "locked"]
  /\ running' = c
  /\ UNCHANGED <<config, active_model, loaded_models, model_statuses, cache, inflight, tctx>>
  /\ pipeUnchanged
  /\ UNCHANGED error_streak

\* lines 962-969: inside the lock, up to unload_model's request
Locked(c) ==
  /\ Runs(c, "locked")
  /\ LET m == tctx[c].model
         switch == config.preload_models /\ active_model # m
         unload == switch /\ active_model # NONE
     IN /\ model_statuses' = used_now(model_statuses, m)
        /\ inflight' = IF unload THEN send(inflight, Request(c, "unload", active_model))
                       ELSE inflight
        /\ tpc' = [tpc EXCEPT ![c] = IF unload THEN "unload_req"
                                     ELSE IF switch THEN "preload" ELSE "gen_send"]
        /\ running' = IF unload THEN NONE ELSE c
  /\ UNCHANGED <<config, model_lock, lock_waiters, active_model, loaded_models, cache, tctx>>
  /\ pipeUnchanged
  /\ UNCHANGED error_streak

\* unload_model after its request (lines 866-873); its result is not used
UnloadResponse(c) ==
  /\ Resumes(c, "unload_req")
  /\ \E answer \in ProbeAnswers :
       LET m == active_model
           unloaded == answer = "ok" /\ m \in loaded_models
       IN /\ inflight' = answered(inflight, Request(c, "unload", m))
          /\ loaded_models' = IF unloaded THEN loaded_models \ {m} ELSE loaded_models
          /\ model_statuses' = IF unloaded THEN set_loaded(model_statuses, m, FALSE)
                               ELSE model_statuses
  /\ tpc' = [tpc EXCEPT ![c] = "preload"]
  /\ running' = c
  /\ UNCHANGED <<config, model_lock, lock_waiters, active_model, cache, tctx>>
  /\ pipeUnchanged
  /\ UNCHANGED error_streak

\* preload_model up to its request (lines 830-839), and lines 971-973 when
\* the model is loaded already
Preload(c) ==
  /\ Runs(c, "preload")
  /\ LET m == tctx[c].model
         is_loaded == m \in loaded_models
     IN /\ active_model' = IF is_loaded THEN m ELSE active_model
        /\ inflight' = IF is_loaded THEN inflight ELSE send(inflight, Request(c, "preload", m))
        /\ tpc' = [tpc EXCEPT ![c] = IF is_loaded THEN "gen_send" ELSE "preload_req"]
        /\ running' = IF is_loaded THEN c ELSE NONE
  /\ UNCHANGED <<config, model_lock, lock_waiters, loaded_models, model_statuses, cache, tctx>>
  /\ pipeUnchanged
  /\ UNCHANGED error_streak

\* preload_model after its request (lines 840-847) and lines 971-973
PreloadResponse(c) ==
  /\ Resumes(c, "preload_req")
  /\ \E answer \in ProbeAnswers :
       LET m == tctx[c].model
           ok == answer = "ok"
       IN /\ inflight' = answered(inflight, Request(c, "preload", m))
          /\ loaded_models' = IF ok THEN loaded_models \cup {m} ELSE loaded_models
          /\ model_statuses' =
               IF ok THEN set_loaded(model_statuses, m, TRUE)
               ELSE _increment_failure_count(model_statuses, m, config.fallback_threshold)
          /\ active_model' = IF ok THEN m ELSE active_model
          /\ model_lock' = IF ok THEN model_lock ELSE release(model_lock, c)
          /\ tctx' = IF ok THEN tctx
                     ELSE [tctx EXCEPT ![c].result = model_load_failed(m),
                                       ![c].trace = Append(@, generate_event(m, "load_failed",
                                                             model_load_failed(m)))]
          /\ tpc' = [tpc EXCEPT ![c] = IF ok THEN "gen_send" ELSE "gen_ret"]
          /\ error_streak' = IF ok THEN after_success(error_streak, m)
                              ELSE after_error(error_streak, m, config.fallback_threshold)
  /\ running' = c
  /\ UNCHANGED <<config, lock_waiters, cache>>
  /\ pipeUnchanged

\* lines 975-998: the request is validated and sent
GenerateSend(c) ==
  /\ Runs(c, "gen_send")
  /\ LET x == tctx[c]
         valid == x.step.options_valid
     IN /\ inflight' = IF valid THEN send(inflight, Request(c, "generate", x.model))
                       ELSE inflight
        /\ model_lock' = IF valid THEN model_lock ELSE release(model_lock, c)
        /\ tctx' = IF valid THEN tctx
                   ELSE [tctx EXCEPT ![c].result = validation_error,
                                     ![c].trace = Append(@, generate_event(x.model, "invalid",
                                                           validation_error))]
        /\ tpc' = [tpc EXCEPT ![c] = IF valid THEN "generate_req" ELSE "gen_ret"]
        /\ running' = IF valid THEN NONE ELSE c
  /\ UNCHANGED <<config, lock_waiters, active_model, loaded_models, model_statuses, cache>>
  /\ pipeUnchanged
  /\ UNCHANGED error_streak

\* lines 999-1054: the answer of the backend; the lock is left
GenerateResponse(c) ==
  /\ Resumes(c, "generate_req")
  /\ \E answer \in AnswersFor(tctx[c].step) :
       LET x == tctx[c]
           cache_key == _create_cache_key(x.model, call_prompt(x), call_options(x))
           output == generate_result(x.model, answer)
       IN /\ inflight' = answered(inflight, Request(c, "generate", x.model))
          /\ model_statuses' =
               IF answer = "error"
                 THEN _increment_failure_count(model_statuses, x.model,
                                               config.fallback_threshold)
                 ELSE model_statuses
          /\ cache' = IF replied(answer) THEN DictSet(cache, cache_key, output) ELSE cache
          /\ tctx' = [tctx EXCEPT ![c].result = output,
                                   ![c].trace = Append(@, generate_event(x.model, "request",
                                                                         output)),
                                   ![c].replies = IF replied(answer)
                                                    THEN Append(@, reply_text(x.model, answer))
                                                    ELSE @]
          /\ error_streak' =
               CASE answer = "error" ->
                      after_error(error_streak, x.model, config.fallback_threshold)
                 [] replied(answer) -> after_generation(error_streak, x.model)
                 [] OTHER -> error_streak
  /\ model_lock' = release(model_lock, c)
  /\ tpc' = [tpc EXCEPT ![c] = "gen_ret"]
  /\ running' = c
  /\ UNCHANGED <<config, lock_waiters, active_model, loaded_models>>
  /\ pipeUnchanged

\* back in execute (lines 1330-1391) or in get_fallback (lines 1474-1486)
GenerateReturn(c) ==
  /\ Runs(c, "gen_ret")
  /\ tctx[c].mode # "patch"
  /\ LET x == tctx[c]
         fallbacks == x.step.fallback_models
         retry == IF x.mode = "primary" THEN has_error(x.result) /\ fallbacks # << >>
                  ELSE has_error(x.result)
         process == x.mode = "primary" /\ ~ retry /\ x.step.output_schema # NONE
     IN /\ tctx' = IF retry
                     THEN [tctx EXCEPT ![c].mode = "fallback", ![c].result = EmptyDict,
                                       ![c].fb_idx = IF x.mode = "primary" THEN 1 ELSE @ + 1]
                     ELSE IF process THEN tctx
                     ELSE [tctx EXCEPT ![c] = Returned(c,
                             IF x.mode = "primary"
                               THEN execute_result(x.step, x.prompt, x.result)
                               ELSE fallback_result(x.model, x.prompt, x.result))]
        /\ tpc' = [tpc EXCEPT ![c] = IF retry THEN "fb_loop"
                                     ELSE IF process THEN "post" ELSE "done"]
        /\ running' = IF retry \/ process THEN c ELSE NONE
  /\ UNCHANGED mmVars
  /\ pipeUnchanged
  /\ UNCHANGED error_streak

ModelManagerStep(c) ==
  \/ CheckModelHealth(c)
  \/ HealthResponse(c)
  \/ AfterHealth(c)
  \/ FallbackLoop(c)
  \/ GenerateCall(c)
  \/ SimSleepDone(c)
  \/ LockGranted(c)
  \/ Locked(c)
  \/ UnloadResponse(c)
  \/ Preload(c)
  \/ PreloadResponse(c)
  \/ GenerateSend(c)
  \/ GenerateResponse(c)
  \/ GenerateReturn(c)

(***************************************************************************)
(* The pipelines of ModelSteps on a shared ModelManager: up to             *)
(* MaxModelSteps steps without dependencies, all of them with the primary  *)
(* model "mA" and all with or all without the fallback "mB", while the     *)
(* step task "other" of somebody else executes one ModelStep of model "mB" *)
(* on the same manager.                                                    *)
(***************************************************************************)
FallbackChoices(model_name) ==
  {<< >>} \cup {<<m>> : m \in Models \ {model_name}}

ModelSteps == {ModelStep("mA", fb, "template") : fb \in FallbackChoices("mA")}

OtherStep == ModelStep("mB", << >>, "template of other")

ModelPipelineOf(n, s) ==
  [i \in 1..n |-> [name |-> AllNames[i], deps |-> << >>, step |-> s]]

InitMM ==
  /\ \E n \in 1..MaxModelSteps : \E s \in ModelSteps : steps = ModelPipelineOf(n, s)
  /\ input_data \in Inputs
  /\ config \in Configs
  /\ tpc = [c \in Callers |-> IF c = "other" THEN "start" ELSE "idle"]
  /\ tctx = [c \in Callers |-> IF c = "other" THEN TaskCtx(OtherStep, EmptyDict) ELSE NoCtx]
  /\ InitRun

NextMM ==
  \/ Construct
  \/ RunStart
  \/ StepBegin
  \/ ModelStepReturn
  \/ StepTimeout
  \/ Finish
  \/ \E c \in Callers : ModelManagerStep(c)

SpecMM == InitMM /\ [][NextMM]_vars

(***************************************************************************)
(* Two callers of generate_with_model with the same model, prompt and      *)
(* options: the step task of a one-step pipeline and a concurrent caller   *)
(* that executes an equal step on the same ModelManager.                   *)
(***************************************************************************)
SameStep == ModelStep("mA", << >>, "template")

InitSame ==
  /\ \E s \in ModelSteps : steps = ModelPipelineOf(1, s)
  /\ input_data \in Inputs
  /\ config \in Configs
  /\ tpc = [c \in Callers |-> IF c = "other" THEN "start" ELSE "idle"]
  /\ tctx = [c \in Callers |-> IF c = "other" THEN TaskCtx(SameStep, EmptyDict) ELSE NoCtx]
  /\ InitRun

SpecSame == InitSame /\ [][NextMM]_vars

(***************************************************************************)
(* The same under the scheduling of the event loop: a task that is ready   *)
(* to run is run, and every request to the backend is answered in the end. *)
(* The step timeout may fire or not.                                       *)
(***************************************************************************)
RunStep == Construct \/ RunStart \/ StepBegin \/ ModelStepReturn \/ Finish

FairMM == WF_vars(RunStep) /\ \A c \in Callers : WF_vars(ModelManagerStep(c))

\* the concurrent caller executes a step of its own, whose options the
\* request validation accepts or rejects (temperature is at most 2, line 92)
InvalidStep ==
  [OtherStep EXCEPT !.options = "{temperature: 3}", !.options_valid = FALSE]

InitLock ==
  /\ \E s \in ModelSteps : steps = ModelPipelineOf(1, s)
  /\ input_data \in Inputs
  /\ config \in Configs
  /\ tpc = [c \in Callers |-> IF c = "other" THEN "start" ELSE "idle"]
  /\ \E s \in {OtherStep, InvalidStep} :
       tctx = [c \in Callers |-> IF c = "other" THEN TaskCtx(s, EmptyDict) ELSE NoCtx]
  /\ InitRun

SpecLock == InitLock /\ [][NextMM]_vars

SpecLockFair == SpecLock /\ FairMM

(***************************************************************************)
(* One step task alone on its ModelManager: a pipeline of a single         *)
(* ModelStep of primary model "mA" with every list of at most MaxFallbacks *)
(* fallback models, under every fallback_threshold up to MaxThreshold.     *)
(* Nobody else calls the manager, so the model lock is never waited for.   *)
(***************************************************************************)
RECURSIVE ListsUpTo(_, _)
ListsUpTo(S, n) ==
  IF n = 0 THEN {<< >>}
  ELSE LET shorter == ListsUpTo(S, n - 1)
       IN shorter \cup {Append(l, x) : l \in shorter, x \in S}

FallbackLists == ListsUpTo(AllModels, MaxFallbacks)

StepConfigs ==
  [simulation_mode : BOOLEAN, preload_models : BOOLEAN,
   fallback_threshold : 0..MaxThreshold]

InitStep ==
  /\ \E fb \in FallbackLists : steps = ModelPipelineOf(1, ModelStep("mA", fb, "template"))
  /\ input_data \in Inputs
  /\ config \in StepConfigs
  /\ tpc = [c \in Callers |-> "idle"]
  /\ tctx = [c \in Callers |-> NoCtx]
  /\ InitRun

NextStep ==
  \/ Construct
  \/ RunStart
  \/ StepBegin
  \/ ModelStepReturn
  \/ StepTimeout
  \/ Finish
  \/ CheckModelHealth("run")
  \/ HealthResponse("run")
  \/ AfterHealth("run")
  \/ FallbackLoop("run")
  \/ GenerateCall("run")
  \/ SimSleepDone("run")
  \/ Locked("run")
  \/ UnloadResponse("run")
  \/ Preload("run")
  \/ PreloadResponse("run")
  \/ GenerateSend("run")
  \/ GenerateResponse("run")
  \/ GenerateReturn("run")

SpecStep == InitStep /\ [][NextStep]_vars

(***************************************************************************)
(* ModelStep.execute after the generation when the step declares an        *)
(* output_schema (lines 1339-1391) and _patch_json_output (lines           *)
(* 1408-1441).  The default patching_prompt formats without an exception   *)
(* and the texts are strings, so the "except Exception" of line 1377 is    *)
(* not entered.                                                            *)
(***************************************************************************)
\* execute returns (lines 1383-1391)
FinishExecute(c, result) ==
  /\ tctx' = [tctx EXCEPT ![c] = Returned(c, execute_result(tctx[c].step, tctx[c].prompt,
                                                            result))]
  /\ tpc' = [tpc EXCEPT ![c] = "done"]
  /\ running' = NONE

\* what execute is left with when nothing validated and nothing patched:
\* the wrapped response_obj under fallback_to_text, else result as it was
unpatched(step, response_obj, result) ==
  IF step.fallback_to_text THEN wrap_text_as_json(response_obj) ELSE result

\* _patch_json_output(response_obj) is called (lines 1354, 1367): it returns
\* None at once (lines 1410-1411) or enters its first attempt, which goes
\* into generate_with_model with the primary model (lines 1421-1429, 575)
StartPatch(c, response_obj) ==
  LET x == tctx[c]
  IN IF ~ x.step.use_patching \/ x.step.max_patching_attempts <= 0
       THEN FinishExecute(c, unpatched(x.step, response_obj, x.result))
       ELSE /\ tctx' = [tctx EXCEPT ![c].mode = "patch", ![c].model = x.step.model_name,
                                     ![c].step_result = x.result, ![c].result = EmptyDict,
                                     ![c].response_obj = response_obj,
                                     ![c].output_text = response_obj, ![c].attempt = 0]
            /\ tpc' = [tpc EXCEPT ![c] = "gen_call"]
            /\ running' = c

\* an attempt has failed with patched_json (lines 1435-1441): the next
\* attempt, or None after the last one
NextAttempt(c, patched_json) ==
  LET x == tctx[c]
      output_text == IF "response" \in DOMAIN patched_json THEN patched_json.response
                     ELSE x.output_text
  IN IF x.attempt + 1 < x.step.max_patching_attempts
       THEN /\ tctx' = [tctx EXCEPT ![c].output_text = output_text, ![c].attempt = @ + 1,
                                     ![c].result = EmptyDict]
            /\ tpc' = [tpc EXCEPT ![c] = "gen_call"]
            /\ running' = c
       ELSE FinishExecute(c, unpatched(x.step, x.response_obj, x.step_result))

\* fixed_json of patch_json_with_model (lines 587-597): json.loads of the
\* extracted JSON, or of all of fixed_text
fixed_json(result) ==
  LET fixed_text == get_response(result)
      json_str == extract_json(fixed_text)
  IN json_loads(IF json_str # NONE THEN json_str ELSE fixed_text)

\* lines 1339-1376 up to the await of validate_with_schema
PostProcess(c) ==
  /\ Runs(c, "post")
  /\ LET x == tctx[c]
         response_obj == get_response(x.result)
     IN IF looks_like_json(response_obj)
          THEN IF json_loads(response_obj).ok
                 THEN /\ tctx' = [tctx EXCEPT ![c].response_obj = response_obj]
                      /\ tpc' = [tpc EXCEPT ![c] = "validate"]
                      /\ running' = NONE
                 ELSE IF x.step.use_patching
                   THEN StartPatch(c, response_obj)
                   ELSE FinishExecute(c, unpatched(x.step, response_obj, x.result))
          ELSE FinishExecute(c, unpatched(x.step, response_obj, x.result))
  /\ UNCHANGED mmVars
  /\ pipeUnchanged
  /\ UNCHANGED error_streak

\* validate_with_schema has returned in execute (lines 1348-1362)
Validated(c) ==
  /\ Resumes(c, "validate")
  /\ LET x == tctx[c]
         v == validate_with_schema(json_loads(x.response_obj).value)
     IN IF v.is_valid
          THEN FinishExecute(c, v.data)
          ELSE IF x.step.use_patching
            THEN StartPatch(c, x.response_obj)
            ELSE FinishExecute(c, unpatched(x.step, x.response_obj, x.result))
  /\ UNCHANGED mmVars
  /\ pipeUnchanged
  /\ UNCHANGED error_streak

\* generate_with_model has returned in patch_json_with_model (lines
\* 579-611), up to the await of validate_with_schema
PatchReturn(c) ==
  /\ Runs(c, "gen_ret")
  /\ tctx[c].mode = "patch"
  /\ LET x == tctx[c]
     IN IF has_error(x.result)
          THEN NextAttempt(c, [error |-> "patching_failed", response |-> x.output_text])
          ELSE IF ~ fixed_json(x.result).ok
            THEN NextAttempt(c, [response |-> get_response(x.result),
                                 error |-> "patching_failed"])
            ELSE /\ tpc' = [tpc EXCEPT ![c] = "patch_validate"]
                 /\ running' = NONE
                 /\ UNCHANGED tctx
  /\ UNCHANGED mmVars
  /\ pipeUnchanged
  /\ UNCHANGED error_streak

\* validate_with_schema has returned in patch_json_with_model (lines
\* 599-606) and _patch_json_output goes on (lines 1431-1441, 1355-1359)
PatchValidated(c) ==
  /\ Resumes(c, "patch_validate")
  /\ LET x == tctx[c]
         v == validate_with_schema(fixed_json(x.result).value)
     IN IF v.is_valid
          THEN FinishExecute(c, v.data)
          ELSE NextAttempt(c, fixed_json(x.result).value)
  /\ UNCHANGED mmVars
  /\ pipeUnchanged
  /\ UNCHANGED error_streak

(***************************************************************************)
(* One ModelStep of the primary model "mA", with or without the fallback   *)
(* "mB" and with or without an output_schema, constructed with every       *)
(* use_patching and max_patching_attempts argument under every             *)
(* json_patching setting of the config, run by a pipeline of its own.      *)
(***************************************************************************)
Optional(S) == {<< >>} \cup {<<v>> : v \in S}

JSONPatchingConfigs ==
  [enabled : BOOLEAN, max_attempts : 0..MaxPatchingAttempts, fallback_to_text : BOOLEAN]

SchemaSteps ==
  {ModelStepWith(jp, "mA", fb, "template", schema, use_patching, max_patching_attempts) :
     jp \in JSONPatchingConfigs, fb \in FallbackChoices("mA"), schema \in {NONE, "Schema"},
     use_patching \in Optional(BOOLEAN),
     max_patching_attempts \in Optional(0..MaxPatchingAttempts)}

InitSchema ==
  /\ \E s \in SchemaSteps : steps = ModelPipelineOf(1, s)
  /\ input_data \in Inputs
  /\ config = [simulation_mode |-> FALSE, preload_models |-> TRUE,
               fallback_threshold |-> fallback_threshold]
  /\ tpc = [c \in Callers |-> "idle"]
  /\ tctx = [c \in Callers |-> NoCtx]
  /\ InitRun

NextSchema ==
  \/ Construct
  \/ RunStart
  \/ StepBegin
  \/ ModelStepReturn
  \/ StepTimeout
  \/ Finish
  \/ CheckModelHealth("run")
  \/ HealthResponse("run")
  \/ AfterHealth("run")
  \/ FallbackLoop("run")
  \/ GenerateCall("run")
  \/ Locked("run")
  \/ UnloadResponse("run")
  \/ Preload("run")
  \/ PreloadResponse("run")
  \/ GenerateSend("run")
  \/ GenerateResponse("run")
  \/ GenerateReturn("run")
  \/ PostProcess("run")
  \/ Validated("run")
  \/ PatchReturn("run")
  \/ PatchValidated("run")

SpecSchema == InitSchema /\ [][NextSchema]_vars

(***************************************************************************)
(* A FileCache on its own: set, get and the passing of time.  get and set  *)
(* hold the lock of the cache from their first to their last statement and *)
(* await nothing inside it, so each is one step.                           *)
(***************************************************************************)
cacheUnchanged == UNCHANGED <<pipeVars, mmVars, taskVars, timed_out_at, error_streak, calls, http, retry_loop>>

\* FileCache.set(key, value, ttl) (lines 350-372) when the file is written
CacheSet(key, value, ttl) ==
  /\ LET fc == file_cache
         expires_at == IF ttl # << >> THEN <<fc.now + ttl[1]>> ELSE << >>
     IN file_cache' =
          [fc EXCEPT !.files[_hash_key(key)] = entry_file(value, fc.now, expires_at),
                     !.got = NoGet,
                     !.was_set = [key |-> key],
                     !.last_set[key] = <<[value |-> value, at |-> fc.now, ttl |-> ttl]>>]
  /\ cacheUnchanged

\* FileCache.get(key) (lines 320-342) when the file, if there is one, is read
CacheGet(key) ==
  /\ file_cache' =
       [file_cache EXCEPT !.got = get_result(key, file_cache.files[_hash_key(key)],
                                             file_cache.now),
                          !.was_set = NoSet]
  /\ cacheUnchanged

\* FileCache.get(key) when open or read raises IOError
CacheGetReadFails(key) ==
  /\ file_cache.files[_hash_key(key)] # Absent
  /\ file_cache' = [file_cache EXCEPT !.got = read_failed(key), !.was_set = NoSet]
  /\ cacheUnchanged

\* time.time() moves on
Tick ==
  /\ file_cache.now < MaxTime
  /\ file_cache' = [file_cache EXCEPT !.now = @ + 1, !.got = NoGet, !.was_set = NoSet]
  /\ cacheUnchanged

\* no pipeline runs
InitIdle ==
  /\ steps = << >>
  /\ input_data \in Inputs
  /\ config = [simulation_mode |-> FALSE, preload_models |-> TRUE,
               fallback_threshold |-> fallback_threshold]
  /\ tpc = [c \in Callers |-> "idle"]
  /\ tctx = [c \in Callers |-> NoCtx]
  /\ InitManager

\* a cache directory that is empty and is written by set only
InitCache ==
  /\ InitIdle
  /\ file_cache = EmptyFileCache

NextCache ==
  \/ \E key \in CacheKeys, value \in CacheValues, ttl \in Ttls : CacheSet(key, value, ttl)
  \/ \E key \in CacheKeys : CacheGet(key)
  \/ Tick

SpecCache == InitCache /\ [][NextCache]_vars

\* a cache directory in which files were left that set did not write, and
\* reads that fail
InitCacheFiles ==
  /\ InitIdle
  /\ \E fs \in [FileNames -> {Absent} \cup MalformedFiles] :
       file_cache = [EmptyFileCache EXCEPT !.files = fs]

NextCacheFiles ==
  \/ \E key \in CacheKeys, value \in CacheValues, ttl \in Ttls : CacheSet(key, value, ttl)
  \/ \E key \in CacheKeys : CacheGet(key)
  \/ \E key \in CacheKeys : CacheGetReadFails(key)
  \/ Tick

SpecCacheFiles == InitCacheFiles /\ [][NextCacheFiles]_vars

(***************************************************************************)
(* _create_cache_key on option maps (lines 878-882).  A dict is the        *)
(* sequence of its items in insertion order, which is the order in which   *)
(* json.dumps without sort_keys writes them; two dicts are equal when they *)
(* hold the same items.                                                    *)
(***************************************************************************)
OptionNames == {"temperature", "top_p"}

OptionValues == {"0.2", "0.7"}

\* the dicts of up to MaxOptions items
OptionMaps ==
  {o \in ListsUpTo(OptionNames \X OptionValues, MaxOptions) :
     \A i, j \in 1..Len(o) : i # j => o[i][1] # o[j][1]}

Items(o) == {o[i] : i \in 1..Len(o)}

RECURSIVE dumps_items(_)
dumps_items(o) ==
  IF o = << >> THEN ""
  ELSE "\"" \o o[1][1] \o "\": " \o o[1][2]
       \o (IF Len(o) > 1 THEN ", " ELSE "") \o dumps_items(Tail(o))

\* json.dumps(options or {})
json_dumps(o) == "{" \o dumps_items(o) \o "}"

\* generate_with_model computes the key of a request (line 909) and the
\* cache the file name of the key (lines 324, 354)
CreateCacheKey(model_name, prompt, options) ==
  /\ Len(calls) < 2
  /\ LET cache_key == _create_cache_key(model_name, prompt, json_dumps(options))
     IN calls' = Append(calls, [model_name |-> model_name, prompt |-> prompt,
                                options |-> options, cache_key |-> cache_key,
                                file |-> _hash_key(cache_key) \o ".json"])
  /\ UNCHANGED <<pipeVars, mmVars, taskVars, timed_out_at, error_streak, file_cache, http, retry_loop>>

InitKey ==
  /\ InitIdle
  /\ file_cache = EmptyFileCache

NextKey ==
  \E model_name \in Models, prompt \in {"P", "Q"}, options \in OptionMaps :
    CreateCacheKey(model_name, prompt, options)

SpecKey == InitKey /\ [][NextKey]_vars

(***************************************************************************)
(* Calls of ModelManager._request, one after the other.                    *)
(***************************************************************************)
requestUnchanged ==
  UNCHANGED <<pipeVars, mmVars, taskVars, timed_out_at, error_streak, file_cache, calls, retry_loop>>

\* line 684: _request is called; the decorator starts the first attempt
RequestCall(endpoint, method) ==
  /\ http.pc \in {"idle", "returned"}
  /\ Len(http.log) < MaxRequests
  /\ http' = [http EXCEPT !.pc = "attempt", !.endpoint = endpoint, !.method = method,
                          !.attempt_number = 1, !.sent = 0,
                          !.outcome = NoOutcome, !.result = NoOutcome]
  /\ requestUnchanged

\* lines 694-721: one run of the body, which sends one HTTP request
RequestAttempt(transport) ==
  /\ http.pc = "attempt"
  /\ http' = [http EXCEPT !.pc = "decide", !.sent = @ + 1,
                          !.outcome = _request_body(transport)]
  /\ requestUnchanged

\* lines 678-683: the decorator looks at what the body did: a value is
\* handed to the caller, an exception of the retried types starts another
\* attempt unless stop says otherwise
RetryDecide ==
  /\ http.pc = "decide"
  /\ LET again == retry_if_exception_type(http.outcome) /\ ~ stop(http.attempt_number)
         result == IF retry_if_exception_type(http.outcome)
                     THEN raised("RetryError")
                     ELSE http.outcome
     IN http' = IF again
                  THEN [http EXCEPT !.pc = "attempt", !.attempt_number = @ + 1]
                  ELSE [http EXCEPT !.pc = "returned", !.result = result,
                                    !.log = Append(@, [endpoint |-> http.endpoint,
                                                       sent |-> http.sent,
                                                       result |-> result])]
  /\ requestUnchanged

InitRequest ==
  /\ InitIdle
  /\ file_cache = EmptyFileCache

NextRequest ==
  \/ \E r \in Requests : RequestCall(r[1], r[2])
  \/ \E transport \in Transports : RequestAttempt(transport)
  \/ RetryDecide

SpecRequest == InitRequest /\ [][NextRequest]_vars

(***************************************************************************)
(* One call of pasture_core's generate_with_model for a model on a         *)
(* ModelManager with an empty cache, outside simulation mode and without   *)
(* preloading, so that lines 642-669 lead straight into the retry loop.    *)
(***************************************************************************)
retryUnchanged ==
  UNCHANGED <<pipeVars, taskVars, timed_out_at, error_streak, file_cache, calls, http>>

\* the dict returned after the last attempt (lines 706-711, 729-733,
\* 768-772) or for a reply (lines 738-758)
core_result(model_name, answer) ==
  IF answer = "error"
    THEN [error |-> "HTTP 500", response |-> "Error after attempts: details"]
    ELSE generate_result(model_name, answer)

\* lines 639-674: the cache has no entry, the lock is taken
CoreCall(model_name, max_retries) ==
  /\ retry_loop.pc = "idle"
  /\ lock_is_free
  /\ cache_get(cache, _create_cache_key(model_name, "P", "{}")) = EmptyDict
  /\ ~ config.simulation_mode /\ ~ config.preload_models
  /\ model_lock' = acquire("run")
  /\ model_statuses' = used_now(model_statuses, model_name)
  /\ retry_loop' = [NoRetry EXCEPT !.pc = "loop", !.model = model_name,
                                   !.max_retries = max_retries]
  /\ UNCHANGED <<config, lock_waiters, active_model, loaded_models, cache, inflight>>
  /\ retryUnchanged

\* line 676: "while retry_count <= max_retries", and the request of lines
\* 680-691; past the loop the function ends without a return statement
CoreLoop ==
  /\ retry_loop.pc = "loop"
  /\ IF retry_loop.retry_count <= retry_loop.max_retries
       THEN /\ inflight' = send(inflight, Request("run", "generate", retry_loop.model))
            /\ retry_loop' = [retry_loop EXCEPT !.pc = "req", !.sent = @ + 1]
            /\ UNCHANGED model_lock
       ELSE /\ retry_loop' = [retry_loop EXCEPT !.pc = "returned", !.result = <<PyNone>>]
            /\ model_lock' = release(model_lock, "run")
            /\ UNCHANGED inflight
  /\ UNCHANGED <<config, lock_waiters, active_model, loaded_models, model_statuses, cache>>
  /\ retryUnchanged

\* lines 692-772: the answer of the backend
CoreAnswer(answer) ==
  /\ retry_loop.pc = "req"
  /\ LET m == retry_loop.model
         retry_count == IF answer = "ok" THEN retry_loop.retry_count
                        ELSE retry_loop.retry_count + 1
         again == answer # "ok" /\ retry_count <= retry_loop.max_retries
         output == core_result(m, answer)
     IN /\ inflight' = answered(inflight, Request("run", "generate", m))
        /\ model_statuses' =
             IF answer = "error"
               THEN _increment_failure_count(model_statuses, m, config.fallback_threshold)
               ELSE model_statuses
        /\ cache' = IF answer = "ok" THEN DictSet(cache, _create_cache_key(m, "P", "{}"), output)
                    ELSE cache
        /\ retry_loop' = [retry_loop EXCEPT !.pc = IF again THEN "sleep" ELSE "returned",
                                            !.retry_count = retry_count,
                                            !.answers = Append(@, answer),
                                            !.result = IF again THEN << >> ELSE <<output>>]
        /\ model_lock' = IF again THEN model_lock ELSE release(model_lock, "run")
  /\ UNCHANGED <<config, lock_waiters, active_model, loaded_models>>
  /\ retryUnchanged

\* asyncio.sleep(retry_delay) is over (lines 702-705, 723-727, 763-766)
CoreSleepDone ==
  /\ retry_loop.pc = "sleep"
  /\ retry_loop' = [retry_loop EXCEPT !.pc = "loop"]
  /\ UNCHANGED mmVars
  /\ retryUnchanged

InitRetry ==
  /\ steps = << >>
  /\ input_data \in Inputs
  /\ config = [simulation_mode |-> FALSE, preload_models |-> FALSE,
               fallback_threshold |-> fallback_threshold]
  /\ tpc = [c \in Callers |-> "idle"]
  /\ tctx = [c \in Callers |-> NoCtx]
  /\ InitManager
  /\ file_cache = EmptyFileCache

NextRetry ==
  \/ \E model_name \in Models, max_retries \in RetryValues : CoreCall(model_name, max_retries)
  \/ CoreLoop
  \/ \E answer \in GenerateAnswers : CoreAnswer(answer)
  \/ CoreSleepDone

SpecRetry == InitRetry /\ [][NextRetry]_vars

(***************************************************************************)
(* Vocabulary of the properties.                                           *)
(***************************************************************************)
\* the declared steps that a step of S depends on
DeclaredDeps(ss, S) ==
  {d \in StepNames(ss) : \E i \in 1..Len(ss) : ss[i].name \in S /\ InSeq(d, ss[i].deps)}

\* the steps reached from the steps of S along one or more dependencies
RECURSIVE ReachedFrom(_, _)
ReachedFrom(ss, S) ==
  LET S2 == S \cup DeclaredDeps(ss, S)
  IN IF S2 = S THEN S ELSE ReachedFrom(ss, S2)

HasCycle(ss) == \E n \in StepNames(ss) : n \in ReachedFrom(ss, DeclaredDeps(ss, {n}))

DepEdges(ss) ==
  {e \in StepNames(ss) \X StepNames(ss) :
     \E i \in 1..Len(ss) : ss[i].name = e[1] /\ InSeq(e[2], ss[i].deps)}

\* every dependency names a step of the pipeline
DepsDeclared(ss) ==
  \A i \in 1..Len(ss) : Range(ss[i].deps) \subseteq StepNames(ss)

DepsOf(ss, n) == Range(step_info(ss, n).deps)

TimesExecuted(n) == Cardinality({i \in 1..Len(executed) : executed[i] = n})

PositionIn(seq, n) == CHOOSE i \in 1..Len(seq) : seq[i] = n

\* the cycle reported by the constructor follows dependency edges and closes
IsCycleOf(ss, c) ==
  /\ Len(c) >= 2
  /\ c[1] = c[Len(c)]
  /\ \A i \in 1..(Len(c) - 1) : <<c[i], c[i+1]>> \in DepEdges(ss)

(***************************************************************************)
(* C1.  For an acyclic pipeline whose dependencies all name steps, run     *)
(* executes every step exactly once and every step name is a key of        *)
(* results, so total_count is the number of steps.                         *)
(***************************************************************************)
C1_EveryStepOnce ==
  (pc = "done" /\ DepsDeclared(steps))
    => /\ \A n \in StepNames(steps) : TimesExecuted(n) = 1
       /\ DOMAIN ret.results = StepNames(steps)
       /\ ret.total_count = Len(steps)

(***************************************************************************)
(* C2.  A step's execute starts only after each of its dependencies has a  *)
(* recorded result, and the execution plan is a topological order of the   *)
(* dependency graph: every step is in the plan, after its dependencies.    *)
(***************************************************************************)
C2_PlanTopological ==
  (pc \in {"loop", "awaiting", "done"} /\ DepsDeclared(steps))
    => /\ \A i \in 1..Len(executed) :
            \A d \in DepsOf(steps, executed[i]) :
              \E j \in 1..(i-1) : executed[j] = d
       /\ Range(execution_plan) = StepNames(steps)
       /\ \A n \in StepNames(steps) :
            \A d \in DepsOf(steps, n) :
              /\ InSeq(d, execution_plan)
              /\ PositionIn(execution_plan, d) < PositionIn(execution_plan, n)

(***************************************************************************)
(* C3.  A failing step never aborts the run: the run returns, the step     *)
(* has an error result (execution_error when it raised), every step that   *)
(* depends on a failed step is still executed, and success_count counts    *)
(* the successful results only.                                            *)
(***************************************************************************)
C3_FailureNeverAborts ==
  (pc = "done" /\ DepsDeclared(steps))
    => /\ \A n \in StepNames(steps) :
            (n \in DOMAIN results /\ ~ is_success(results[n]))
              => \A m \in StepNames(steps) :
                   n \in DepsOf(steps, m) => InSeq(m, executed)
       /\ ret.success_count = Cardinality({n \in DOMAIN results : is_success(results[n])})

(***************************************************************************)
(* C4.  The constructor raises the circular-dependency error exactly when  *)
(* the dependency graph over the declared names has a cycle, the error     *)
(* names a cycle of the graph, and for a cyclic pipeline no run starts and *)
(* no step is executed.                                                    *)
(***************************************************************************)
C4_CycleRaisesInConstructor ==
  LET cyclic == HasCycle(steps)
  IN /\ pc # "new" => ((pc = "raised") <=> cyclic)
     /\ pc = "raised" => IsCycleOf(steps, cycle)
     /\ cyclic => /\ pc \in {"new", "raised"}
                  /\ executed = << >>
                  /\ task = NoTask
                  /\ results = EmptyDict

\* the constructor has raised on a cycle that is not a self-dependency
C4_Witness ==
  /\ pc = "raised"
  /\ Len(cycle) = 3
  /\ HasCycle(steps)

(***************************************************************************)
(* Vocabulary of the properties of the shared ModelManager.                *)
(***************************************************************************)
\* how many requests of caller c are in flight
RequestsOf(c) == BagCardinality([r \in InFlight(c) |-> inflight[r]])

\* the requests that generate_with_model sends: generation, preload, unload
LockedKinds == {"generate", "preload", "unload"}

\* the positions of a step task inside "async with self.model_lock"
InsideLock == {"locked", "unload_req", "preload", "preload_req", "gen_send", "generate_req"}

(***************************************************************************)
(* C5.  During one run outside simulation mode, never are two requests of  *)
(* the run (generation, preload, unload, health probe) in flight together, *)
(* also after a step was cut off by the step timeout.                      *)
(***************************************************************************)
C5_OneRequestPerRun ==
  ~config.simulation_mode => RequestsOf("run") <= 1

\* a step was cut off while its generation request was pending, and a later
\* step of the same run has a request in flight
C5_Witness ==
  /\ ~config.simulation_mode
  /\ \E n \in DOMAIN timed_out_at : timed_out_at[n].at = "generate_req"
  /\ pc = "awaiting"
  /\ RequestsOf("run") = 1

C7_TimeoutDoesNotPoison ==
  /\ \A n \in DOMAIN timed_out_at :
       /\ n \in DOMAIN results
       /\ results[n].status = "error"
       /\ results[n].output.error = "timeout"
  /\ \A c \in Callers : model_lock = c => tpc[c] \in InsideLock
  /\ tpc["run"] = "idle" =>
       /\ model_lock # "run"
       /\ ~InSeq("run", lock_waiters)
       /\ InFlight("run") = {}
  /\ pc = "done" =>
       \A i \in 1..Len(execution_plan) :
         /\ TimesExecuted(execution_plan[i]) = 1
         /\ execution_plan[i] \in DOMAIN results

\* the first step was cut off while it held the model lock, and the second
\* step holds the lock now
C7_Witness ==
  /\ "s1" \in DOMAIN timed_out_at
  /\ timed_out_at["s1"].held_lock
  /\ task.name = "s2"
  /\ model_lock = "run"

(***************************************************************************)
(* C8.  When an earlier step ended with a status other than success, the   *)
(* data map handed to a later step holds the step_failed placeholder under *)
(* that step's name.                                                       *)
(***************************************************************************)
C8_PlaceholderForFailedStep ==
  \A i \in 1..Len(executed) :
    \A j \in 1..(i-1) :
      LET failed == executed[j]
      IN (failed \in DOMAIN results /\ ~ is_success(results[failed]))
           => execute_data[executed[i]][failed] = step_failed_placeholder(failed)

(***************************************************************************)
(* C9.  The data map handed to a step holds every key of the input and,    *)
(* for every step that already has a result (declared as a dependency or   *)
(* not), that step's output under its name; a step name that is also an    *)
(* input key holds the step's output.                                      *)
(***************************************************************************)
C9_DataMapHoldsInputAndOutputs ==
  \A i \in 1..Len(executed) :
    LET d == execute_data[executed[i]]
        earlier == {executed[j] : j \in 1..(i-1)}
    IN /\ DOMAIN d = DOMAIN input_data \cup earlier
       /\ \A k \in earlier : k \in DOMAIN results => d[k] = results[k].output
       /\ \A k \in DOMAIN input_data \ earlier : d[k] = input_data[k]

\* a second step was handed the output of a first step that it does not
\* depend on and whose name is also a key of the input
C9_Witness ==
  /\ Len(executed) >= 2
  /\ executed[1] \in DOMAIN input_data
  /\ executed[1] \in DOMAIN results
  /\ executed[1] \notin DepsOf(steps, executed[2])
  /\ execute_data[executed[2]][executed[1]] = results[executed[1]].output
  /\ execute_data[executed[2]]["query"] = input_data["query"]

(***************************************************************************)
(* C10.  A step with a dependency that names no step of the pipeline is    *)
(* never executed and is recorded in results with status error and         *)
(* output.error = "missing_dependencies"; total_count counts it and        *)
(* success_count does not.                                                 *)
(***************************************************************************)
C10_MissingDependencyRecorded ==
  pc = "done"
    => \A n \in StepNames(steps) :
         (DepsOf(steps, n) \ StepNames(steps) # {})
           => /\ ~ InSeq(n, executed)
              /\ n \in DOMAIN ret.results
              /\ ret.results[n].status = "error"
              /\ ret.results[n].output.error = "missing_dependencies"
              /\ ret.total_count >= 1

LastEvent(c) == tctx[c].trace[Len(tctx[c].trace)]

\* check_model_health has just returned to the step task of c
HealthReturned(c) == tpc[c] = "health_done" /\ tctx[c].trace # << >>

C14_UnhealthyModelIsProbedAgain ==
  \A c \in Callers :
    (HealthReturned(c) /\ ~ LastEvent(c).ok) => LastEvent(c).probed

(***************************************************************************)
(* C15.  For every tracked model and every configured fallback_threshold   *)
(* (0 included), failure_count >= fallback_threshold implies that the      *)
(* model is marked unhealthy, from the creation of its status entry on.    *)
(***************************************************************************)
C15_CountAtThresholdMeansUnhealthy ==
  \A m \in DOMAIN model_statuses :
    model_statuses[m].failure_count >= config.fallback_threshold
      => ~ model_statuses[m].healthy

(***************************************************************************)
(* Vocabulary of the properties of one step task.                          *)
(***************************************************************************)
\* the step whose task the run is awaiting
CurrentStep == step_info(steps, task.name).step

\* the calls the step task of the run has made into the ModelManager
Trace == tctx["run"].trace

\* the first call of execute, the health check of the primary model, has
\* returned false and the step has fallback models
PrimaryUnhealthy ==
  /\ pc = "awaiting"
  /\ Trace # << >>
  /\ Trace[1].op = "health"
  /\ Trace[1].model = CurrentStep.model_name
  /\ ~ Trace[1].ok
  /\ CurrentStep.fallback_models # << >>

(***************************************************************************)
(* C16.  When the health check of a step's primary model returns false and *)
(* the step has a fallback model, execute delegates to get_fallback: it    *)
(* sends no generation, preload or unload request for the primary model,   *)
(* its next call into the ModelManager is the health check of the first    *)
(* fallback model, and what it returns is the result of get_fallback.      *)
(***************************************************************************)
C16_UnhealthyPrimaryDelegates ==
  PrimaryUnhealthy
    => /\ Len(Trace) = 1 =>
            /\ \A r \in InFlight("run") : r.kind \notin LockedKinds
            /\ model_lock # "run"
            /\ tpc["run"] \notin InsideLock \cup {"gen_call", "sim_sleep", "wait_lock", "gen_ret"}
       /\ Len(Trace) >= 2 =>
            /\ Trace[2].op = "health"
            /\ Trace[2].model = CurrentStep.fallback_models[1]
       /\ tpc["run"] \notin {"health_done", "done"} => tctx["run"].mode = "fallback"
       /\ tpc["run"] = "done" =>
            /\ "fallback" \in DOMAIN tctx["run"].ret
            /\ tctx["run"].ret.fallback

\* the primary model was found unhealthy and execute has returned the
\* successful result of the fallback model
C16_Witness ==
  /\ PrimaryUnhealthy
  /\ tpc["run"] = "done"
  /\ Len(Trace) = 3
  /\ Trace[3].op = "generate"
  /\ Trace[3].model = "mB"
  /\ tctx["run"].ret.fallback
  /\ tctx["run"].ret.status = "success"
  /\ tctx["run"].ret.model = "mB"

\* the calls made by get_fallback: what follows the health check of the
\* primary model and the generation with it, which execute skips when the
\* check failed and the step has fallback models
FallbackCalls ==
  LET first == IF Trace # << >> /\ (Trace[1].ok \/ CurrentStep.fallback_models = << >>)
                 THEN 3 ELSE 2
  IN SubSeq(Trace, first, Len(Trace))

Malformed == [wellformed |-> FALSE, tried |-> 0, succeeded |-> FALSE, pending |-> FALSE]

\* Reads the calls tr as the iteration of get_fallback over fb from the
\* j-th candidate on: a failed health check alone, or a passed health
\* check and a generation, per candidate, in list order, nothing after a
\* generation without error.  "tried" is the last candidate reached,
\* "pending" says its generation has not returned yet.
RECURSIVE TriedInOrder(_, _, _)
TriedInOrder(tr, fb, j) ==
  IF tr = << >>
    THEN [wellformed |-> TRUE, tried |-> j - 1, succeeded |-> FALSE, pending |-> FALSE]
  ELSE IF j > Len(fb) \/ tr[1].op # "health" \/ tr[1].model # fb[j]
    THEN Malformed
  ELSE IF ~ tr[1].ok
    THEN TriedInOrder(Tail(tr), fb, j + 1)
  ELSE IF Len(tr) = 1
    THEN [wellformed |-> TRUE, tried |-> j, succeeded |-> FALSE, pending |-> TRUE]
  ELSE IF tr[2].op # "generate" \/ tr[2].model # fb[j]
    THEN Malformed
  ELSE IF tr[2].error
    THEN TriedInOrder(SubSeq(tr, 3, Len(tr)), fb, j + 1)
  ELSE IF Len(tr) = 2
    THEN [wellformed |-> TRUE, tried |-> j, succeeded |-> TRUE, pending |-> FALSE]
  ELSE Malformed

(***************************************************************************)
(* C17.  get_fallback tries fallback_models in list order: a candidate     *)
(* whose health check fails gets no generation call (the next call is the  *)
(* health check of the next candidate, and no generate, preload or unload  *)
(* request is sent in between); the first generation without error ends    *)
(* the iteration with status success, fallback = true and model = that     *)
(* candidate; when every candidate has been tried without success the      *)
(* result is the all_models_failed error.                                  *)
(***************************************************************************)
C17_FallbackInListOrder ==
  (pc = "awaiting" /\ CurrentStep.kind = "ModelStep" /\ Len(Trace) >= 1)
    => LET fb == CurrentStep.fallback_models
           p == TriedInOrder(FallbackCalls, fb, 1)
           r == tctx["run"].ret
       IN /\ p.wellformed
          /\ (FallbackCalls # << >> /\ LastEvent("run").op = "health" /\ ~ LastEvent("run").ok)
               => /\ \A q \in InFlight("run") : q.kind \notin LockedKinds
                  /\ model_lock # "run"
          /\ (tpc["run"] = "done" /\ "fallback" \in DOMAIN r)
               => IF p.succeeded
                    THEN /\ r.status = "success"
                         /\ r.fallback
                         /\ r.model = fb[p.tried]
                         /\ "error" \notin DOMAIN r.output
                    ELSE /\ p.tried = Len(fb)
                         /\ ~ p.pending
                         /\ r.status = "error"
                         /\ r.output.error = "all_models_failed"
                         /\ r.fallback
          /\ (tpc["run"] = "done" /\ (FallbackCalls # << >> \/ p.succeeded))
               => "fallback" \in DOMAIN r

\* the first candidate was unhealthy and skipped, the second one generated
\* without error and is the model of the result
C17_Witness ==
  /\ pc = "awaiting"
  /\ tpc["run"] = "done"
  /\ CurrentStep.fallback_models = <<"mC", "mB">>
  /\ Len(FallbackCalls) = 3
  /\ FallbackCalls[1] = health_event("mC", TRUE, FALSE)
  /\ FallbackCalls[3].op = "generate"
  /\ tctx["run"].ret.status = "success"
  /\ tctx["run"].ret.model = "mB"
  /\ tctx["run"].ret.fallback

\* every candidate was tried, the last one generated with an error
C17_WitnessAllFailed ==
  /\ pc = "awaiting"
  /\ tpc["run"] = "done"
  /\ Len(CurrentStep.fallback_models) = 2
  /\ Len(FallbackCalls) >= 3
  /\ LastEvent("run").op = "generate"
  /\ tctx["run"].ret.status = "error"
  /\ tctx["run"].ret.output.error = "all_models_failed"

(***************************************************************************)
(* C18.  When generate_with_model returns an error object for the primary  *)
(* model of a step without fallback models, execute returns a result with  *)
(* status error whose output has the error key, with or without an         *)
(* output_schema and whatever fallback_to_text is.                         *)
(***************************************************************************)
C18_ErrorObjectGivesErrorResult ==
  (/\ pc = "awaiting"
   /\ tpc["run"] = "done"
   /\ CurrentStep.kind = "ModelStep"
   /\ CurrentStep.fallback_models = << >>
   /\ Len(Trace) >= 2
   /\ Trace[2].op = "generate"
   /\ Trace[2].error)
    => /\ tctx["run"].ret.status = "error"
       /\ "error" \in DOMAIN tctx["run"].ret.output

\* the texts the backend sent the step task of the run, in order
Replies == tctx["run"].replies

\* execute has returned after a generation request with the primary model
\* of a step with an output_schema was answered with a text that
\* generate_with_model took without error
PrimaryReplied ==
  /\ pc = "awaiting"
  /\ tpc["run"] = "done"
  /\ CurrentStep.kind = "ModelStep"
  /\ CurrentStep.output_schema # NONE
  /\ Len(Trace) >= 2
  /\ Trace[2].op = "generate"
  /\ Trace[2].how = "request"
  /\ ~ Trace[2].error
  /\ Replies # << >>

\* the result execute returned is a success whose output is the validated
\* object
ValidatedSuccess ==
  /\ tctx["run"].ret.status = "success"
  /\ "fallback" \notin DOMAIN tctx["run"].ret
  /\ tctx["run"].ret.output = validate_with_schema(json_loads(ValidJson).value).data

(***************************************************************************)
(* C19.  For a step with an output_schema: when the reply text of the      *)
(* backend is a JSON object that satisfies the schema, execute returns     *)
(* status success with the validated object as output; when the first      *)
(* reply is a JSON object that violates the schema and the reply to a      *)
(* patch request satisfies it, execute returns status success with the     *)
(* patched, validated object.                                              *)
(***************************************************************************)
C19_SchemaRepliesSucceed ==
  PrimaryReplied
    => /\ Replies[1] \in {ValidJson, ExtraJson} => ValidatedSuccess
       /\ (/\ Replies[1] \in {InvalidJson, WrappedInvalid}
           /\ Len(Replies) >= 2
           /\ Replies[Len(Replies)] \in {ValidJson, ExtraJson})
            => ValidatedSuccess

\* the first half of C19 alone
C19_ValidReplySucceeds ==
  (PrimaryReplied /\ Replies[1] \in {ValidJson, ExtraJson}) => ValidatedSuccess

\* the second half of C19 alone
C19_PatchedReplySucceeds ==
  (/\ PrimaryReplied
   /\ Replies[1] \in {InvalidJson, WrappedInvalid}
   /\ Len(Replies) >= 2
   /\ Replies[Len(Replies)] \in {ValidJson, ExtraJson})
    => ValidatedSuccess

\* what the code does reach: a reply whose "response" holds the text of a
\* valid object is validated
C19_WrappedReplyValidated ==
  (PrimaryReplied /\ Replies = <<WrappedValid>>) => ValidatedSuccess

\* and a patch succeeds on a reply that wraps the object or embeds it in a
\* sentence
C19_WrappedPatchValidated ==
  (/\ PrimaryReplied
   /\ Replies[1] = WrappedInvalid
   /\ Len(Replies) >= 2
   /\ Replies[Len(Replies)] \in {WrappedValid, ProseValid})
    => ValidatedSuccess

C19_ReachedPatchSuccess ==
  /\ PrimaryReplied
  /\ Replies = <<WrappedInvalid, ProseValid>>
  /\ ValidatedSuccess

\* a step result with status success has no error key in its output
SuccessHasNoError(r) == r.status = "success" => "error" \notin DOMAIN r.output

(***************************************************************************)
(* C20.  Every result that execute or get_fallback of a step returns, and  *)
(* every result Pipeline.run records or returns, has no error key in its   *)
(* output when its status is success.                                      *)
(***************************************************************************)
C20_SuccessHasNoErrorKey ==
  /\ tpc["run"] = "done" => SuccessHasNoError(tctx["run"].ret)
  /\ \A n \in DOMAIN results : SuccessHasNoError(results[n])
  /\ pc = "done" => \A n \in DOMAIN ret.results : SuccessHasNoError(ret.results[n])

\* the run has returned a success of its step, and the cache holds what
\* generate_with_model made of a reply that could not be parsed, error key
\* included
C20_Witness ==
  /\ pc = "done"
  /\ \E n \in DOMAIN ret.results :
       /\ ret.results[n].status = "success"
       /\ ret.results[n].output = [title |-> "t"]
  /\ \E k \in DOMAIN cache : "error" \in DOMAIN cache[k]

(***************************************************************************)
(* C21.  Every result with fallback = true names in its model field a      *)
(* model other than the primary model of the step, whatever get_fallback   *)
(* came to and whatever the fallback list holds.                           *)
(***************************************************************************)
C21_FallbackNamesAnotherModel ==
  (/\ pc = "awaiting"
   /\ tpc["run"] = "done"
   /\ "fallback" \in DOMAIN tctx["run"].ret
   /\ tctx["run"].ret.fallback)
    => tctx["run"].ret.model # CurrentStep.model_name

\* the same for the successful results of a list without the primary model:
\* these do name the candidate
C21_SuccessfulFallbackNamesCandidate ==
  (/\ pc = "awaiting"
   /\ tpc["run"] = "done"
   /\ "fallback" \in DOMAIN tctx["run"].ret
   /\ tctx["run"].ret.status = "success"
   /\ ~ InSeq(CurrentStep.model_name, CurrentStep.fallback_models))
    => tctx["run"].ret.model # CurrentStep.model_name

(***************************************************************************)
(* Vocabulary of the properties of the FileCache.                          *)
(***************************************************************************)
\* what get(key) would return in the cache fc
Lookup(fc, key) == get_result(key, fc.files[_hash_key(key)], fc.now)

\* the last step was get, and Got is what it came to
Got == file_cache.got

JustGot == Got # NoGet

\* the most recent set of the key of the last get, if any
LastSet == file_cache.last_set[Got.key]

\* expires_at of the most recent set: write time + ttl
Deadline == LastSet[1].at + LastSet[1].ttl[1]

C22_GetReturnsLastSet ==
  JustGot =>
    IF LastSet = << >>
      THEN Got.outcome = "miss"
      ELSE (LastSet[1].ttl = << >> \/ file_cache.now <= Deadline)
             => Got.outcome = "value" /\ Got.value = LastSet[1].value

C22_SetKeepsOtherKeys ==
  \A key \in CacheKeys :
    (file_cache'.was_set.key # NONE /\ file_cache'.was_set.key # key)
      => Lookup(file_cache', key) = Lookup(file_cache, key)

(***************************************************************************)
(* C22.  After any sequence of set operations get(k) returns the value of  *)
(* the most recent set(k, v, ttl) as long as that entry has not expired,   *)
(* and None for a key that was never set; a set of one key never changes   *)
(* what get returns for another key.                                       *)
(***************************************************************************)
C22_SetThenGet == [] C22_GetReturnsLastSet /\ [][C22_SetKeepsOtherKeys]_vars

\* both keys were set, "k2" after "k1" and with another value, and get("k1")
\* has returned the value of "k1"
C22_Witness ==
  /\ JustGot
  /\ Got.key = "k1"
  /\ Got.outcome = "value"
  /\ file_cache.last_set["k2"] # << >>
  /\ file_cache.last_set["k2"][1].at > LastSet[1].at
  /\ file_cache.last_set["k2"][1].value # Got.value

(***************************************************************************)
(* C23.  An entry written with a ttl is returned by get at every time now  *)
(* with now <= expires_at and is a miss at every time with                 *)
(* expires_at < now, where expires_at = write time + ttl; an entry written *)
(* without a ttl is returned at every time.                                *)
(***************************************************************************)
C23_ExpiryIsStrict ==
  (JustGot /\ LastSet # << >>)
    => IF LastSet[1].ttl = << >>
         THEN Got.outcome = "value"
         ELSE /\ file_cache.now <= Deadline => Got.outcome = "value"
              /\ Deadline < file_cache.now => Got.outcome = "miss"
              /\ file_cache.files[_hash_key(Got.key)].expires_at = <<Deadline>>

\* get has returned the value at the very tick of the deadline, which is
\* later than the write
C23_Witness ==
  /\ JustGot
  /\ LastSet # << >>
  /\ LastSet[1].ttl # << >>
  /\ LastSet[1].ttl[1] > 0
  /\ file_cache.now = Deadline
  /\ Got.outcome = "value"

\* get has missed one tick after the deadline, the file being still there
C23_WitnessExpired ==
  /\ JustGot
  /\ LastSet # << >>
  /\ LastSet[1].ttl # << >>
  /\ file_cache.now = Deadline + 1
  /\ Got.outcome = "miss"
  /\ file_cache.files[_hash_key(Got.key)].kind = "entry"

(***************************************************************************)
(* C27.  get never raises: whatever the file of the key holds (no file, a  *)
(* text that is no JSON, JSON that is no entry object, an entry without a  *)
(* field) and whenever the read fails, get returns the stored value or     *)
(* None, and None for a malformed file.                                    *)
(***************************************************************************)
C27_GetNeverRaises ==
  JustGot =>
    /\ Got.outcome \in {"value", "miss"}
    /\ file_cache.files[_hash_key(Got.key)] \in MalformedFiles => Got.outcome = "miss"

\* the part the handlers of get cover: no file, a text json.load rejects,
\* a failed read
C27_UnparsableIsMiss ==
  (JustGot /\ file_cache.files[_hash_key(Got.key)].kind \in {"absent", "unparsable"})
    => Got.outcome = "miss"

(***************************************************************************)
(* C24.  Two calls with the same model, the same prompt and option maps    *)
(* that hold the same key/value pairs get the same cache key and the same  *)
(* cache file name, whatever the order of the entries of the maps.         *)
(***************************************************************************)
C24_EqualOptionsSameKey ==
  \A i, j \in 1..Len(calls) :
    (/\ calls[i].model_name = calls[j].model_name
     /\ calls[i].prompt = calls[j].prompt
     /\ Items(calls[i].options) = Items(calls[j].options))
      => /\ calls[i].cache_key = calls[j].cache_key
         /\ calls[i].file = calls[j].file

\* what does hold: the same key for the same items in the same order
C24_SameOrderSameKey ==
  \A i, j \in 1..Len(calls) :
    (/\ calls[i].model_name = calls[j].model_name
     /\ calls[i].prompt = calls[j].prompt
     /\ calls[i].options = calls[j].options)
      => /\ calls[i].cache_key = calls[j].cache_key
         /\ calls[i].file = calls[j].file

\* the cache key of the generate_with_model call the step task of c is in
KeyOf(c) == _create_cache_key(tctx[c].model, call_prompt(tctx[c]), call_options(tctx[c]))

\* caller c goes through the cache lookup of generate_with_model and the
\* cache holds an entry of the key that has not expired
CacheHitOf(c) ==
  /\ tpc[c] = "gen_call"
  /\ tpc'[c] # "gen_call"
  /\ KeyOf(c) \in DOMAIN cache
  /\ KeyOf(c) \in DOMAIN cache'

C25_HitStep ==
  \A c \in Callers :
    CacheHitOf(c)
      => /\ tpc'[c] = "gen_ret"
         /\ tctx'[c].result = cache[KeyOf(c)]
         /\ UNCHANGED <<inflight, model_lock, lock_waiters, cache, active_model,
                        loaded_models, model_statuses>>

(***************************************************************************)
(* C25.  When the cache holds an unexpired entry of the key of a request,  *)
(* generate_with_model returns exactly the cached value and changes        *)
(* nothing else: it sends no request, does not acquire or queue for the    *)
(* model lock, does not write the cache and leaves active_model, the       *)
(* loaded models and every model status as they were.                      *)
(***************************************************************************)
C25_CacheHitChangesNothing == [][C25_HitStep]_vars

\* the step task of the run has got the cached value back while somebody
\* else holds the model lock and has a request in flight
C25_Witness ==
  /\ tpc["run"] = "gen_ret"
  /\ tctx["run"].trace # << >>
  /\ LastEvent("run").op = "generate"
  /\ LastEvent("run").how = "cache"
  /\ KeyOf("run") \in DOMAIN cache
  /\ tctx["run"].result = cache[KeyOf("run")]
  /\ model_lock = "other"
  /\ InFlight("other") # {}
  /\ InFlight("run") = {}

\* the generation with the primary model of the step the run is awaiting
\* was answered from the cache: the entry of its key was there and had not
\* expired
PrimaryFromCache ==
  /\ pc = "awaiting"
  /\ ~ config.simulation_mode
  /\ CurrentStep.kind = "ModelStep"
  /\ Len(Trace) >= 2
  /\ Trace[1].op = "health"
  /\ Trace[2].op = "generate"
  /\ Trace[2].model = CurrentStep.model_name
  /\ Trace[2].how = "cache"

(***************************************************************************)
(* C26.  When the cache holds an unexpired entry for the model, the        *)
(* formatted prompt and the options of a step, running the step outside    *)
(* simulation mode sends no HTTP request at all, the health probe          *)
(* included, and the output of the step is the cached value.               *)
(***************************************************************************)
C26_CachedStepSendsNothing ==
  PrimaryFromCache
    => /\ ~ Trace[1].probed
       /\ (tpc["run"] = "done" /\ Len(Trace) = 2)
            => \E k \in DOMAIN cache : tctx["run"].ret.output = cache[k]

\* the part that holds: after the probe the cached value is the output and
\* no further request is sent
C26_CachedValueIsOutput ==
  PrimaryFromCache
    => /\ Len(Trace) = 2 => InFlight("run") = {}
       /\ (tpc["run"] = "done" /\ Len(Trace) = 2)
            => /\ \E k \in DOMAIN cache : tctx["run"].ret.output = cache[k]
               /\ tctx["run"].ret.status = "success"

\* failure_count and healthy of a model in a status table; a model without
\* a status has the values _get_model_status would create
CountOf(statuses, m) == IF m \in DOMAIN statuses THEN statuses[m].failure_count ELSE 0

HealthyIn(statuses, m) == IF m \in DOMAIN statuses THEN statuses[m].healthy ELSE TRUE

\* in this step generate_with_model returns an error to the step task of c
ReturnsError(c) ==
  /\ Len(tctx'[c].trace) = Len(tctx[c].trace) + 1
  /\ tctx'[c].trace[Len(tctx'[c].trace)].op = "generate"
  /\ tctx'[c].trace[Len(tctx'[c].trace)].error

C28_ErrorStep ==
  \A c \in Callers :
    ReturnsError(c)
      => LET m == tctx'[c].trace[Len(tctx'[c].trace)].model
         IN /\ CountOf(model_statuses', m) >= CountOf(model_statuses, m) + 1
            /\ CountOf(model_statuses', m) >= config.fallback_threshold
                 => ~ HealthyIn(model_statuses', m)

(***************************************************************************)
(* C28.  Every error generate_with_model returns for a model adds at least *)
(* one to the failure_count of that model, response_too_short included,    *)
(* and the model is unhealthy as soon as failure_count has reached         *)
(* fallback_threshold.                                                     *)
(***************************************************************************)
C28_EveryErrorCounts == [][C28_ErrorStep]_vars

\* the errors that do count: an error of the backend request and a failed
\* preload
C28_RequestErrorStep ==
  \A c \in Callers :
    (ReturnsError(c) /\ tctx'[c].result.error \in {"HTTP 500", "model_load_failed"})
      => LET m == tctx'[c].trace[Len(tctx'[c].trace)].model
         IN /\ CountOf(model_statuses', m) = CountOf(model_statuses, m) + 1
            /\ ~ HealthyIn(model_statuses', m)
                 <=> CountOf(model_statuses', m) >= config.fallback_threshold
                       \/ ~ HealthyIn(model_statuses, m)

C28_RequestErrorsCount == [][C28_RequestErrorStep]_vars

\* _request has handed the error object with this error to its caller
RequestReturnedError(error) ==
  /\ http.pc = "returned"
  /\ http.result.kind = "returned"
  /\ "error" \in DOMAIN http.result.value
  /\ http.result.value.error = error

(***************************************************************************)
(* C29.  A request that fails with a connection error is attempted again,  *)
(* up to three attempts in all, before {error: "connection_error"} is      *)
(* handed to the caller: the error object of a connection error is handed  *)
(* over after the third attempt only.  A reply with a status other than    *)
(* 200 is handed over after one attempt.                                   *)
(***************************************************************************)
C29_ConnectionErrorAfterThreeAttempts ==
  /\ RequestReturnedError("connection_error") => http.sent = 3
  /\ \A status \in {"404", "500"} : RequestReturnedError("HTTP " \o status) => http.sent = 1

\* what does hold: every call of _request sends one HTTP request and hands
\* over what the body returned, whatever the transport did
C29_OneAttemptPerCall ==
  http.pc = "returned" => http.sent = 1 /\ http.result.kind = "returned"

C29_Non200AfterOneAttempt ==
  \A status \in {"404", "500"} : RequestReturnedError("HTTP " \o status) => http.sent = 1

\* what the calls of a step task into the ModelManager did in simulation
\* mode: no probe, every model healthy, every reply synthesized or cached
SimulatedCall(e) ==
  IF e.op = "health" THEN e.ok /\ ~ e.probed
  ELSE e.how \in {"simulated", "cache"} /\ ~ e.error

(***************************************************************************)
(* C30.  In simulation mode no HTTP request is ever sent:                  *)
(* check_model_health returns true for every model without a probe and     *)
(* generate_with_model returns a synthesized reply, so the run of a        *)
(* pipeline of one ModelStep ends with the status success for that step,   *)
(* the simulated response as its output, and success_count = 1.            *)
(***************************************************************************)
C30_SimulationSendsNothing ==
  config.simulation_mode =>
    /\ inflight = EmptyBag
    /\ \A i \in 1..Len(Trace) : SimulatedCall(Trace[i])
    /\ pc = "done" =>
         /\ DOMAIN ret.results = {steps[1].name}
         /\ ret.results[steps[1].name].status = "success"
         /\ ret.results[steps[1].name].output = simulated_response(steps[1].step.model_name)
         /\ ret.success_count = 1

C30_Witness ==
  /\ config.simulation_mode
  /\ pc = "done"
  /\ ret.success_count = 1
  /\ ret.results[steps[1].name].status = "success"
  /\ ret.results[steps[1].name].output.response = "Simulated response from mA"

\* the calls of the step are seen while it runs
C30_WitnessCalls ==
  /\ config.simulation_mode
  /\ Len(Trace) = 2
  /\ Trace[1].op = "health" /\ Trace[1].ok
  /\ Trace[2].op = "generate" /\ Trace[2].how = "simulated"

\* in this step caller c sends a request of this kind for this model
Sends(c, kind, m) ==
  inflight' = send(inflight, Request(c, kind, m))

SendsAny(c, kind) == \E m \in AllModels : Sends(c, kind, m)

\* caller c is inside generate_with_model for a model that was not
\* active_model when it took the lock, and the unload of the old model
\* (if there was one) is over: preload_model is called next
AboutToPreload(c) == tpc[c] = "preload" /\ running = c

C31_SwitchStep(c) ==
  LET m == tctx[c].model
  IN \* every request of the call is sent with the lock held
     /\ (\E kind \in LockedKinds : SendsAny(c, kind)) => model_lock = c /\ model_lock' = c
     \* the lock is taken with another model active: the unload comes first
     /\ (Runs(c, "locked") /\ config.preload_models /\ active_model \notin {m, NONE}
           /\ tpc'[c] # "locked")
          => Sends(c, "unload", active_model)
     \* then the preload request for m
     /\ (AboutToPreload(c) /\ tpc'[c] # "preload") => Sends(c, "preload", m)
     \* then, if m was loaded, the generation request with m active
     /\ (SendsAny(c, "generate") /\ config.preload_models)
          => Sends(c, "generate", m) /\ active_model = m
     \* a failed preload ends the call without a generation request
     /\ (tpc[c] = "preload_req" /\ tpc'[c] \notin {"preload_req", "gen_send", "idle", "done"})
          => /\ tpc'[c] = "gen_ret"
             /\ tctx'[c].result.error = "model_load_failed"
             /\ ~ SendsAny(c, "generate")

(***************************************************************************)
(* C31.  With preloading, a generate_with_model call for model M that      *)
(* finds another active_model sends, in this order and with the model lock *)
(* held: the unload request for the active model (if there is one), the    *)
(* preload request for M, then the generation request, with active_model = *)
(* M from then on; when the preload fails the call returns                 *)
(* model_load_failed and sends no generation request.                      *)
(***************************************************************************)
C31_UnloadPreloadGenerate == [][\A c \in Callers : C31_SwitchStep(c)]_vars

\* the same without the preload request: it holds, the preload request is
\* what may be missing
C31_SwitchStepButPreload(c) ==
  LET m == tctx[c].model
  IN /\ (\E kind \in LockedKinds : SendsAny(c, kind)) => model_lock = c /\ model_lock' = c
     /\ (Runs(c, "locked") /\ config.preload_models /\ active_model \notin {m, NONE}
           /\ tpc'[c] # "locked")
          => Sends(c, "unload", active_model)
     /\ (AboutToPreload(c) /\ tpc'[c] # "preload")
          => Sends(c, "preload", m) \/ (m \in loaded_models /\ active_model' = m)
     /\ (SendsAny(c, "generate") /\ config.preload_models)
          => Sends(c, "generate", m) /\ active_model = m
     /\ (tpc[c] = "preload_req" /\ tpc'[c] \notin {"preload_req", "gen_send", "idle", "done"})
          => /\ tpc'[c] = "gen_ret"
             /\ tctx'[c].result.error = "model_load_failed"
             /\ ~ SendsAny(c, "generate")

C31_OrderUnlessLoaded == [][\A c \in Callers : C31_SwitchStepButPreload(c)]_vars

\* no caller is inside "async with self.model_lock"
BetweenCalls == model_lock = NONE /\ \A c \in Callers : tpc[c] \notin InsideLock

\* the loaded flag of the status of a model
LoadedFlag(m) == m \in DOMAIN model_statuses /\ model_statuses[m].loaded

(***************************************************************************)
(* C32.  Between the calls of the ModelManager, with preloading and        *)
(* outside simulation mode, the loaded flag of a model is true exactly     *)
(* when the model is active_model, so at most one model is marked loaded,  *)
(* also after an unload or a preload request has failed.                   *)
(***************************************************************************)
C32_LoadedIffActive ==
  (BetweenCalls /\ config.preload_models /\ ~ config.simulation_mode)
    => /\ \A m \in AllModels : LoadedFlag(m) <=> active_model = m
       /\ Cardinality({m \in AllModels : LoadedFlag(m)}) <= 1

\* what does hold: the flag of a model and its membership of loaded_models
\* agree
C32_FlagIsLoadedModels ==
  \A m \in AllModels : LoadedFlag(m) <=> m \in loaded_models

\* the two consequences of the equivalence, which fail each on its own
C32_AtMostOneLoaded ==
  (BetweenCalls /\ config.preload_models /\ ~ config.simulation_mode)
    => Cardinality({m \in AllModels : LoadedFlag(m)}) <= 1

C32_ActiveIsLoaded ==
  (BetweenCalls /\ config.preload_models /\ ~ config.simulation_mode)
    => (active_model # NONE => LoadedFlag(active_model))

\* a step that writes active_model is line 973 of a generate_with_model
\* call: its caller holds the lock, has preload_model behind it and writes
\* the model of the call
C33_WriteStep ==
  active_model' # active_model
    => \E c \in Callers :
         /\ model_lock = c
         /\ model_lock' = c
         /\ running' = c
         /\ tpc[c] \in {"preload", "preload_req"}
         /\ tpc'[c] = "gen_send"
         /\ active_model' = tctx[c].model

(***************************************************************************)
(* C33.  active_model is written only by a generate call that holds the    *)
(* model lock; health checks, the choice of a fallback, preload_model and  *)
(* unload_model leave it alone, whatever the interleaving of the callers.  *)
(***************************************************************************)
C33_ActiveModelWrittenUnderLock == [][C33_WriteStep]_vars

\* active_model was written for mA (whose preload succeeded) and is now
\* written for mB by a caller that holds the lock while the other caller
\* is at work
C33_Witness ==
  /\ active_model = "mB"
  /\ \E c \in Callers :
       /\ model_lock = c
       /\ tpc[c] = "gen_send"
       /\ tctx[c].model = "mB"
       /\ "mA" \in loaded_models
       /\ \E d \in Callers \ {c} : tpc[d] \notin {"idle", "done"}

\* caller c takes this step and the step writes the map of the statuses
WritesStatus(c) == tpc'[c] # tpc[c] /\ model_statuses' # model_statuses

(***************************************************************************)
(* C34.  Every write to an entry of model_statuses (its creation and its   *)
(* fields failure_count, healthy, loaded, last_checked, last_used) is made *)
(* by a caller that holds the model lock.                                  *)
(***************************************************************************)
C34_StatusWrittenUnderLock ==
  [][\A c \in Callers : WritesStatus(c) => model_lock = c]_vars

\* what does hold: the writes of generate_with_model, preload_model and
\* unload_model are made with the lock held; those of check_model_health
\* are the ones made without it
C34_GenerateWritesUnderLock ==
  [][\A c \in Callers :
       WritesStatus(c) => model_lock = c \/ tpc[c] \in {"start", "check_health", "health_req"}]_vars

\* a call of generate_with_model of the step task was served from the
\* cache with an error result
HitReturnedError ==
  \E i \in 1..Len(Trace) :
    Trace[i].op = "generate" /\ Trace[i].how = "cache" /\ Trace[i].error

(***************************************************************************)
(* C35.  generate_with_model writes the cache only after a successful      *)
(* answer of the backend in the same call: no entry of the cache holds an  *)
(* object with an error key, so a cache hit never returns an error result. *)
(***************************************************************************)
C35_NoErrorInCache ==
  /\ \A k \in DOMAIN cache : "error" \notin DOMAIN cache[k]
  /\ ~ HitReturnedError

\* what does hold: the errors of the backend request, a response that is
\* too short, a reply without a response, a failed preload and rejected
\* options are never cached; the one error object in the cache is that of
\* a reply that looks like JSON and cannot be parsed or repaired
C35_OnlyParseFailuresCached ==
  \A k \in DOMAIN cache :
    "error" \in DOMAIN cache[k] => cache[k].error = "json_parsing_failed"

\* the step task of the run is inside _patch_json_output
Patching == tctx["run"].mode = "patch"

\* the calls of patch_json_with_model the patch loop has made so far
PatchCalls == tctx["run"].attempt + 1

\* the bound the step was given: its max_patching_attempts argument, 0
\* included, or the default of the config when the argument is None
GivenAttempts(step) ==
  IF step.args.max_patching_attempts # << >> THEN step.args.max_patching_attempts[1]
  ELSE step.args.max_attempts

(***************************************************************************)
(* C36.  The patch loop of a step calls patch_json_with_model at most      *)
(* max_patching_attempts times, where max_patching_attempts is the value   *)
(* given to the step (0 included) or the configured default when none is   *)
(* given.                                                                  *)
(***************************************************************************)
C36_AtMostGivenAttempts ==
  Patching => PatchCalls <= GivenAttempts(tctx["run"].step)

\* what does hold: the loop makes at most self.max_patching_attempts
\* calls, which is the configured default when the step was given 0, and
\* it is entered only with use_patching
C36_AtMostEffectiveAttempts ==
  Patching =>
    /\ PatchCalls <= tctx["run"].step.max_patching_attempts
    /\ tctx["run"].step.use_patching
    /\ tctx["run"].step.max_patching_attempts =
         IF GivenAttempts(tctx["run"].step) = 0 THEN tctx["run"].step.args.max_attempts
         ELSE GivenAttempts(tctx["run"].step)

\* a step given 0 attempts is in its second call of patch_json_with_model
C36_ZeroGivenPatchesTwice ==
  /\ Patching
  /\ tctx["run"].step.args.max_patching_attempts = <<0>>
  /\ PatchCalls = 2

\* the healthy flag of the status of a model
HealthyFlag(m) == m \notin DOMAIN model_statuses \/ model_statuses[m].healthy

(***************************************************************************)
(* C37.  A model is marked unhealthy only after fallback_threshold         *)
(* failures in a row: failures of a model that are separated by a          *)
(* successful generation of that model do not add up, so the healthy flag  *)
(* of a model is false only when the errors in a row of the model have     *)
(* reached the threshold.                                                  *)
(***************************************************************************)
C37_UnhealthyOnlyAfterStreak ==
  \A m \in AllModels : ~ HealthyFlag(m) => error_streak[m].reached

\* what does hold: an unhealthy model has had fallback_threshold failures
\* counted since the last successful health probe, in a row or not
C37_UnhealthyOnlyAfterCount ==
  \A m \in AllModels :
    ~ HealthyFlag(m) => /\ model_statuses[m].failure_count >= config.fallback_threshold
                        /\ model_statuses[m].failure_count >= 1

\* the generation request of caller c is in flight
Generating(c) ==
  tpc[c] = "generate_req" /\ Request(c, "generate", tctx[c].model) \in BagToSet(inflight)

(***************************************************************************)
(* C38.  Identical requests are deduplicated under concurrency too: when   *)
(* two callers call generate_with_model with the same model, prompt and    *)
(* options on an empty cache and the backend answers successfully, the     *)
(* backend receives at most one generation request for the key.  So once   *)
(* the reply of a key is in the cache no generation request of that key is *)
(* in flight.                                                              *)
(***************************************************************************)
C38_OneRequestPerKey ==
  \A c \in Callers : Generating(c) => KeyOf(c) \notin DOMAIN cache

\* what does hold: a caller that looks the key up after the reply was
\* cached is served from the cache (C25); and the two generation requests
\* of a key are never in flight together, the lock keeps them apart
C38_NotTogether ==
  \A c, d \in Callers : (Generating(c) /\ Generating(d)) => c = d

\* the second of two equal generation requests has been answered as well
C38_BothAsked ==
  \A c \in Callers :
       /\ tctx[c].trace # << >>
       /\ LastEvent(c).op = "generate"
       /\ LastEvent(c).how = "request"
       /\ ~ LastEvent(c).error
       /\ LastEvent(c).model = "mA"

\* the lock is held by exactly the caller that is inside
\* "async with self.model_lock"
LockHeldInside == \A c \in Callers : model_lock = c <=> tpc[c] \in InsideLock

\* a caller in the queue of the lock gets the lock, unless the step timeout
\* takes it out of the queue
WaiterGetsLock ==
  \A c \in Callers : (tpc[c] = "wait_lock") ~> (model_lock = c \/ tpc[c] = "idle")

\* the run and the concurrent caller come to their end
AllReturn == <>(pc = "done" /\ tpc["other"] = "done" /\ model_lock = NONE)

(***************************************************************************)
(* C39.  Every path out of generate_with_model that took the model lock    *)
(* releases it (success, error of the backend, response_too_short,         *)
(* model_load_failed, validation_error, cancellation by the step timeout): *)
(* the lock is held only by a caller inside the locked section.  Hence     *)
(* there is no deadlock, and a caller that waits for the lock gets it in   *)
(* the end, provided every request to the backend is answered.             *)
(***************************************************************************)
C39_LockAlwaysReleased == []LockHeldInside /\ WaiterGetsLock /\ AllReturn

\* a caller holds the lock after the other caller has left the locked
\* section with an error
C39_Witness ==
  \E c, d \in Callers :
    /\ c # d
    /\ model_lock = c
    /\ tctx[d].trace # << >>
    /\ LastEvent(d).op = "generate"
    /\ LastEvent(d).error
    /\ LastEvent(d).how # "cache"

\* the concurrent caller has left the locked section with a
\* validation_error while the step task of the run waits for the lock
C39_WitnessInvalid ==
  /\ model_lock = NONE
  /\ lock_waiters = <<"run">>
  /\ tctx["other"].trace # << >>
  /\ LastEvent("other").op = "generate"
  /\ LastEvent("other").how = "invalid"

\* the retry loop has come to its end and the call has returned
CoreReturned == retry_loop.pc = "returned"

\* the answer of the last attempt
LastAnswer == retry_loop.answers[Len(retry_loop.answers)]

(***************************************************************************)
(* C40.  With the retry loop of pasture_core, one generate_with_model call *)
(* sends at most max_retries + 1 generation requests, whatever made the    *)
(* attempts fail, and for every max_retries the configuration accepts the  *)
(* loop ends by returning a result object: the reply, or the error of the  *)
(* last attempt.                                                           *)
(***************************************************************************)
C40_RetryLoopReturnsResult ==
  /\ retry_loop.sent <= retry_loop.max_retries + 1
  /\ CoreReturned =>
       /\ retry_loop.result # <<PyNone>>
       /\ retry_loop.answers # << >>
       /\ retry_loop.result = <<core_result(retry_loop.model, LastAnswer)>>

\* what does hold: the same for max_retries >= 0, and for a negative
\* max_retries no request at all
C40_NonNegativeRetries ==
  /\ retry_loop.sent <= IF retry_loop.max_retries >= 0 THEN retry_loop.max_retries + 1 ELSE 0
  /\ retry_loop.sent = Len(retry_loop.answers) + (IF retry_loop.pc = "req" THEN 1 ELSE 0)
  /\ (CoreReturned /\ retry_loop.max_retries >= 0) =>
       /\ retry_loop.result = <<core_result(retry_loop.model, LastAnswer)>>
       /\ LastAnswer # "ok" => retry_loop.sent = retry_loop.max_retries + 1
  /\ (CoreReturned /\ retry_loop.max_retries < 0) => retry_loop.result = <<PyNone>>
  /\ CoreReturned => model_lock = NONE

\* three attempts failed in three ways and the error of the last one is
\* returned
C40_ThreeAttempts ==
  /\ CoreReturned
  /\ retry_loop.sent = 3
  /\ retry_loop.answers = <<"error", "short", "no_response">>

====
